---- MODULE Spec2Model ----
(***************************************************************************)
(* ECDH + AES-CBC secure channel of src/ecdh/script.py.                    *)
(*                                                                         *)
(* Byte strings are sequences of integers 0..255, Python str values are    *)
(* sequences of Unicode code points.  The NIST curve is scaled down to a   *)
(* textbook curve of prime order so that TLC can compute the group law;    *)
(* AES is scaled to a keyed permutation of 16-byte blocks and SHA-256 to a *)
(* fixed 32-byte mixing function.  Block size, IV size, digest size, PKCS7 *)
(* padding, CBC chaining and UTF-8 are those of the code.                  *)
(***************************************************************************)
EXTENDS Integers, Sequences, FiniteSets, TLC

\* ------------------------------------------------------------------ bounds

\* private scalars are drawn from 2..MaxPriv
MaxPriv == 3
\* number of connections the server may accept
MaxSessions == 2
\* IVs are drawn from IVOf(0) .. IVOf(MaxIVSeed)
MaxIVSeed == 1
\* number of times the network may alter or reset a connection
MaxFaults == 1
\* a read may end up to MaxSplit bytes away from a write boundary
MaxSplit == 1
\* longest run of filler characters in a test plaintext
MaxFill == 17
\* RSA key pairs generate_rsa_keys may return
MaxRsaKey == 2
\* values get_random_bytes may return for the AES key and for the nonce
MaxRsaSeed == 2
\* DSA private keys are drawn from 1..MaxDsaKey, per-signature secrets from
\* 1..MaxDsaNonce
MaxDsaKey == 2
MaxDsaNonce == 2
\* longest plaintext and longest key given to the transposition functions
MaxTextLen == 4
MaxKeyLen == 3
\* longest message, largest block size and largest padding interval given
\* to the three-layer cipher
MaxMsgLen == 3
MaxBlock == 3
MaxInterval == 2

\* how far below zero and past one turn of the alphabet the integer keys of
\* the affine and the Caesar cipher go
MaxBeyond == 1

\* --------------------------------------------------------------- constants

\* the curve y^2 = x^3 + CurveA*x + CurveB over GF(CurveP), generator
\* (CurveGx, CurveGy) of prime order CurveN: stands for ec.SECP256R1()
CurveP == 17
CurveA == 2
CurveB == 2
CurveGx == 5
CurveGy == 1
CurveN == 19
\* AES block size and CBC IV size in bytes
BlockSize == 16
IVSize == 16
\* length of a SHA-256 digest in bytes
DigestSize == 32
\* recv(4096)
RecvMax == 4096
\* src/rsa: recv(2048), recv(512), recv(16), recv(1024)
PubKeyRecv == 2048
RsaKeyRecv == 512
NonceRecv == 16
MsgRecv == 1024
\* get_random_bytes(32); the nonce AES.MODE_EAX draws is 16 bytes
AesKeyLen == 32
NonceLen == 16
\* PEM armour: '-' opens and closes the block, body bytes are 'A' + value
PemDash == 45
PemBase == 65
\* algorithm tag of the SubjectPublicKeyInfo: 'E' names an EC key on the curve
PemTagEC == 69
\* 'D' names a DSA key; its group: p, q, g
PemTagDSA == 68
DsaP == 23
DsaQ == 11
DsaG == 2

\* Python's None where a byte string or a str may stand: a sequence that is
\* neither (TLC compares sequences with sequences only)
None == << -1 >>
\* no exception
NoError == "none"

\* message = "Hello ! I am the Client ! This message is encrypted."
ClientMessage ==
    << 72, 101, 108, 108, 111, 32, 33, 32, 73, 32, 97, 109, 32, 116, 104, 101,
       32, 67, 108, 105, 101, 110, 116, 32, 33, 32, 84, 104, 105, 115, 32, 109,
       101, 115, 115, 97, 103, 101, 32, 105, 115, 32, 101, 110, 99, 114, 121, 112,
       116, 101, 100, 46 >>

\* response = "Hello this is the Server ! Your message was received securely."
ServerResponse ==
    << 72, 101, 108, 108, 111, 32, 116, 104, 105, 115, 32, 105, 115, 32, 116, 104,
       101, 32, 83, 101, 114, 118, 101, 114, 32, 33, 32, 89, 111, 117, 114, 32,
       109, 101, 115, 115, 97, 103, 101, 32, 119, 97, 115, 32, 114, 101, 99, 101,
       105, 118, 101, 100, 32, 115, 101, 99, 117, 114, 101, 108, 121, 46 >>

\* ------------------------------------------------------------ key agreement

Min(a, b) == IF a < b THEN a ELSE b

\* the point at infinity is <<>>, an affine point is <<x, y>>
Infinity == << >>
CurveG == << CurveGx, CurveGy >>

OnCurve(P) ==
    /\ Len(P) = 2
    /\ P[1] \in 0..(CurveP - 1)
    /\ P[2] \in 0..(CurveP - 1)
    /\ (P[2] * P[2]) % CurveP
         = (P[1] * P[1] * P[1] + CurveA * P[1] + CurveB) % CurveP

InvMod(a) == CHOOSE x \in 1..(CurveP - 1) : (a * x) % CurveP = 1

PointAdd(P, Q) ==
    IF P = Infinity THEN Q
    ELSE IF Q = Infinity THEN P
    ELSE IF P[1] = Q[1] /\ (P[2] + Q[2]) % CurveP = 0 THEN Infinity
    ELSE LET lam == IF P = Q
                    THEN ((3 * P[1] * P[1] + CurveA) * InvMod((2 * P[2]) % CurveP)) % CurveP
                    ELSE ((Q[2] - P[2]) * InvMod((Q[1] - P[1]) % CurveP)) % CurveP
             x3  == (lam * lam - P[1] - Q[1]) % CurveP
             y3  == (lam * (P[1] - x3) - P[2]) % CurveP
         IN  << x3, y3 >>

RECURSIVE ScalarMult(_, _)
ScalarMult(k, P) ==
    IF k = 0 THEN Infinity
    ELSE IF k % 2 = 0 THEN ScalarMult(k \div 2, PointAdd(P, P))
    ELSE PointAdd(P, ScalarMult(k - 1, P))

\* ec.generate_private_key draws the scalar; the bound keeps the draw small
PrivKeys == 2..Min(MaxPriv, CurveN - 1)

\* private_key.public_key()
PublicKeyOf(priv) == ScalarMult(priv, CurveG)

\* ECDHKeyExchange.__init__ with the scalar that generate_private_key drew
NewECDH(priv) ==
    [private_key |-> priv, public_key |-> PublicKeyOf(priv), shared_key |-> None]

\* PemEncode that writes the coordinates in the other order
PemEncode_SwapsCoords(P) ==
    << PemDash, PemTagEC, PemBase + P[2], PemBase + P[1], PemDash >>

\* public_key.public_bytes(PEM, SubjectPublicKeyInfo)
PemEncode(P) == << PemDash, PemTagEC, PemBase + P[1], PemBase + P[2], PemDash >>

PemLen == 5

\* get_public_bytes that serializes the private scalar with the point
get_public_bytes_WithPrivate(self) ==
    << PemDash, PemTagEC, PemBase + self.public_key[1],
       PemBase + self.private_key, PemDash >>

get_public_bytes(self) == PemEncode(self.public_key)

\* load_pem_public_key that does not check that the point is on the curve
load_pem_public_key_NoCurveCheck(data) ==
    IF Len(data) < PemLen THEN [ok |-> FALSE]
    ELSE IF data[1] # PemDash \/ data[PemLen] # PemDash THEN [ok |-> FALSE]
    ELSE IF data[2] # PemTagEC
         THEN IF data[2] \in PemBase..(PemBase + 25)
              THEN [ok |-> TRUE, alg |-> data[2], point |-> << >>]
              ELSE [ok |-> FALSE]
    ELSE [ok |-> TRUE, alg |-> PemTagEC,
          point |-> << data[3] - PemBase, data[4] - PemBase >>]

\* serialization.load_pem_public_key: the first PEM block of the data is
\* decoded, bytes after its closing armour are ignored; ValueError otherwise
load_pem_public_key(data) ==
    IF Len(data) < PemLen THEN [ok |-> FALSE]
    ELSE IF data[1] # PemDash \/ data[PemLen] # PemDash THEN [ok |-> FALSE]
    ELSE IF data[2] # PemTagEC
         THEN IF data[2] \in PemBase..(PemBase + 25)
              THEN [ok |-> TRUE, alg |-> data[2], point |-> Infinity]
              ELSE [ok |-> FALSE]
    ELSE LET P == << data[3] - PemBase, data[4] - PemBase >>
         IN  IF OnCurve(P) THEN [ok |-> TRUE, alg |-> PemTagEC, point |-> P]
             ELSE [ok |-> FALSE]

\* exchange called with the object's own public key in place of the peer's
exchange_OwnPublicKey(priv, peer) ==
    IF peer.alg # PemTagEC THEN [ok |-> FALSE]
    ELSE LET S == ScalarMult(priv, ScalarMult(priv, CurveG))
         IN  IF S = << >> THEN [ok |-> FALSE]
             ELSE [ok |-> TRUE, secret |-> << S[1] >>]

\* private_key.exchange(ec.ECDH(), peer_public_key): the x coordinate of
\* priv * peer; raises for a key that is no point of this curve
exchange(priv, peer) ==
    IF peer.alg # PemTagEC THEN [ok |-> FALSE]
    ELSE LET S == ScalarMult(priv, peer.point)
         IN  IF S = Infinity THEN [ok |-> FALSE]
             ELSE [ok |-> TRUE, secret |-> << S[1] >>]

RECURSIVE Absorb(_, _)
Absorb(acc, data) ==
    IF data = << >> THEN acc
    ELSE Absorb((acc * 31 + Head(data) + 7) % 251, Tail(data))

\* hashlib.sha256(data).digest(): DigestSize bytes, a function of data only
sha256(data) ==
    LET h == Absorb(1, data)
    IN  [i \in 1..DigestSize |-> (h * h + 7 * h * i + 13 * i + 99) % 256]

\* compute_shared_secret that hashes the previous shared_key, when there is
\* one, together with the shared secret
compute_shared_secret_ChainsKey(self, peer_public_key_bytes) ==
    LET peer == load_pem_public_key(peer_public_key_bytes)
        old == IF self.shared_key = None THEN << >> ELSE self.shared_key
    IN  IF ~peer.ok
        THEN [self |-> self, raised |-> TRUE, error |-> "DecodeError", value |-> None]
        ELSE LET ex == exchange(self.private_key, peer)
             IN  IF ~ex.ok
                 THEN [self |-> self, raised |-> TRUE, error |-> "DecodeError",
                       value |-> None]
                 ELSE LET k == sha256(ex.secret \o old)
                      IN  [self |-> [self EXCEPT !.shared_key = k],
                           raised |-> FALSE, error |-> NoError, value |-> k]

\* compute_shared_secret that clears self.shared_key before it decodes
compute_shared_secret_ClearsKey(self, peer_public_key_bytes) ==
    LET peer == load_pem_public_key(peer_public_key_bytes)
        cleared == [self EXCEPT !.shared_key = None]
    IN  IF ~peer.ok
        THEN [self |-> cleared, raised |-> TRUE, error |-> "DecodeError",
              value |-> None]
        ELSE LET ex == exchange(self.private_key, peer)
             IN  IF ~ex.ok
                 THEN [self |-> cleared, raised |-> TRUE, error |-> "DecodeError",
                       value |-> None]
                 ELSE LET k == sha256(ex.secret)
                      IN  [self |-> [self EXCEPT !.shared_key = k],
                           raised |-> FALSE, error |-> NoError, value |-> k]

\* ECDHKeyExchange.compute_shared_secret: the object after the call and what
\* the call gave (raised = TRUE: an exception left the call)
compute_shared_secret(self, peer_public_key_bytes) ==
    LET peer == load_pem_public_key(peer_public_key_bytes)
    IN  IF ~peer.ok
        THEN [self |-> self, raised |-> TRUE, error |-> "DecodeError", value |-> None]
        ELSE LET ex == exchange(self.private_key, peer)
             IN  IF ~ex.ok
                 THEN [self |-> self, raised |-> TRUE, error |-> "DecodeError",
                       value |-> None]
                 ELSE LET k == sha256(ex.secret)
                      IN  [self |-> [self EXCEPT !.shared_key = k],
                           raised |-> FALSE, error |-> NoError, value |-> k]

\* ------------------------------------------------------------------ UTF-8

IsSurrogate(cp) == cp >= 55296 /\ cp <= 57343

\* the UTF-8 bytes of one code point; << >> for a lone surrogate, which
\* str.encode() refuses
EncodeChar(cp) ==
    IF cp < 128 THEN << cp >>
    ELSE IF cp < 2048 THEN << 192 + (cp \div 64), 128 + (cp % 64) >>
    ELSE IF IsSurrogate(cp) THEN << >>
    ELSE IF cp < 65536
         THEN << 224 + (cp \div 4096), 128 + ((cp \div 64) % 64), 128 + (cp % 64) >>
    ELSE << 240 + (cp \div 262144), 128 + ((cp \div 4096) % 64),
            128 + ((cp \div 64) % 64), 128 + (cp % 64) >>

RECURSIVE EncodeFrom(_, _)
EncodeFrom(str, acc) ==
    IF str = << >> THEN [ok |-> TRUE, bytes |-> acc]
    ELSE IF IsSurrogate(Head(str)) THEN [ok |-> FALSE]
    ELSE EncodeFrom(Tail(str), acc \o EncodeChar(Head(str)))

\* str.encode(): UnicodeEncodeError (ok = FALSE) on a lone surrogate
Utf8Encode(str) == EncodeFrom(str, << >>)

IsCont(b) == b >= 128 /\ b <= 191

RECURSIVE DecodeFrom(_, _)
DecodeFrom(data, acc) ==
    IF data = << >> THEN [ok |-> TRUE, str |-> acc]
    ELSE LET b1 == data[1]
             n  == Len(data)
         IN  IF b1 < 128 THEN DecodeFrom(Tail(data), Append(acc, b1))
             ELSE IF b1 >= 194 /\ b1 <= 223
                  THEN IF n >= 2 /\ IsCont(data[2])
                       THEN DecodeFrom(SubSeq(data, 3, n),
                                       Append(acc, (b1 - 192) * 64 + (data[2] - 128)))
                       ELSE [ok |-> FALSE]
             ELSE IF b1 >= 224 /\ b1 <= 239
                  THEN IF /\ n >= 3
                          /\ IsCont(data[2])
                          /\ IsCont(data[3])
                          /\ (b1 = 224 => data[2] >= 160)
                          /\ (b1 = 237 => data[2] <= 159)
                       THEN DecodeFrom(SubSeq(data, 4, n),
                                       Append(acc, (b1 - 224) * 4096
                                                   + (data[2] - 128) * 64
                                                   + (data[3] - 128)))
                       ELSE [ok |-> FALSE]
             ELSE IF b1 >= 240 /\ b1 <= 244
                  THEN IF /\ n >= 4
                          /\ IsCont(data[2])
                          /\ IsCont(data[3])
                          /\ IsCont(data[4])
                          /\ (b1 = 240 => data[2] >= 144)
                          /\ (b1 = 244 => data[2] <= 143)
                       THEN DecodeFrom(SubSeq(data, 5, n),
                                       Append(acc, (b1 - 240) * 262144
                                                   + (data[2] - 128) * 4096
                                                   + (data[3] - 128) * 64
                                                   + (data[4] - 128)))
                       ELSE [ok |-> FALSE]
             ELSE [ok |-> FALSE]

\* bytes.decode(): UnicodeDecodeError (ok = FALSE) on anything malformed
Utf8Decode(data) == DecodeFrom(data, << >>)

\* ------------------------------------------------------------- block cipher

RECURSIVE Xor(_, _)
Xor(a, b) ==
    IF a = 0 THEN b
    ELSE IF b = 0 THEN a
    ELSE ((a + b) % 2) + 2 * Xor(a \div 2, b \div 2)

XorBlock(X, Y) == [i \in 1..BlockSize |-> Xor(X[i], Y[i])]

\* algorithms.AES(key): only 128, 192 and 256 bit keys are accepted
ValidKey(key) == key # None /\ Len(key) \in {16, 24, 32}

KeyRot(key) == key[1] % BlockSize
KeyAdd(key, i) == key[i] + key[Len(key) - BlockSize + i]

\* the block cipher under key: a keyed permutation of BlockSize-byte blocks
BlockEncrypt(key, B) ==
    [i \in 1..BlockSize |->
        (B[((i - 1 + KeyRot(key)) % BlockSize) + 1] + KeyAdd(key, i)) % 256]

BlockDecrypt(key, C) ==
    [j \in 1..BlockSize |->
        LET i == ((j - 1 - KeyRot(key)) % BlockSize) + 1
        IN  (C[i] - KeyAdd(key, i)) % 256]

\* modes.CBC(iv): each plaintext block is xored with the previous
\* ciphertext block (the IV for the first) before the block cipher
RECURSIVE CBCEncrypt(_, _, _)
CBCEncrypt(key, prev, data) ==
    IF data = << >> THEN << >>
    ELSE LET c == BlockEncrypt(key, XorBlock(SubSeq(data, 1, BlockSize), prev))
         IN  c \o CBCEncrypt(key, c, SubSeq(data, BlockSize + 1, Len(data)))

\* CBCDecrypt that xors every block with the IV instead of the previous
\* ciphertext block
RECURSIVE CBCDecrypt_AlwaysIV(_, _, _)
CBCDecrypt_AlwaysIV(key, prev, data) ==
    IF data = << >> THEN << >>
    ELSE XorBlock(BlockDecrypt(key, SubSeq(data, 1, BlockSize)), prev)
           \o CBCDecrypt_AlwaysIV(key, prev, SubSeq(data, BlockSize + 1, Len(data)))

RECURSIVE CBCDecrypt(_, _, _)
CBCDecrypt(key, prev, data) ==
    IF data = << >> THEN << >>
    ELSE LET c == SubSeq(data, 1, BlockSize)
         IN  XorBlock(BlockDecrypt(key, c), prev)
               \o CBCDecrypt(key, c, SubSeq(data, BlockSize + 1, Len(data)))

\* ------------------------------------------------------------------- PKCS7

\* Pkcs7Pad that adds nothing to data that already fills its last block
Pkcs7Pad_NoFullBlock(data) ==
    LET n == (BlockSize - (Len(data) % BlockSize)) % BlockSize
    IN  data \o [i \in 1..n |-> n]

\* padding.PKCS7(128).padder(): 1..BlockSize bytes, each the pad length
Pkcs7Pad(data) ==
    LET n == BlockSize - (Len(data) % BlockSize)
    IN  data \o [i \in 1..n |-> n]

\* Pkcs7Unpad that refuses a last block made of pad bytes only
Pkcs7Unpad_RejectsFullPad(data) ==
    LET n == Len(data)
    IN  IF n = 0 \/ n % BlockSize # 0 THEN [ok |-> FALSE]
        ELSE LET pad == data[n]
             IN  IF /\ pad >= 1
                    /\ pad < BlockSize
                    /\ \A i \in (n - pad + 1)..n : data[i] = pad
                 THEN [ok |-> TRUE, data |-> SubSeq(data, 1, n - pad)]
                 ELSE [ok |-> FALSE]

\* Pkcs7Unpad that trusts the last byte and does not compare the pad bytes
Pkcs7Unpad_LastByteOnly(data) ==
    LET n == Len(data)
    IN  IF n = 0 \/ n % BlockSize # 0 THEN [ok |-> FALSE]
        ELSE LET pad == data[n]
             IN  IF pad >= 1 /\ pad <= BlockSize
                 THEN [ok |-> TRUE, data |-> SubSeq(data, 1, n - pad)]
                 ELSE [ok |-> FALSE]

\* padding.PKCS7(128).unpadder(): the last block must end in pad bytes
Pkcs7Unpad(data) ==
    LET n == Len(data)
    IN  IF n = 0 \/ n % BlockSize # 0 THEN [ok |-> FALSE]
        ELSE LET pad == data[n]
             IN  IF /\ pad >= 1
                    /\ pad <= BlockSize
                    /\ \A i \in (n - pad + 1)..n : data[i] = pad
                 THEN [ok |-> TRUE, data |-> SubSeq(data, 1, n - pad)]
                 ELSE [ok |-> FALSE]

\* --------------------------------------------------------------- AESCipher

\* os.urandom(16): the draw is named by a seed of the bounded set IVSeeds
IVSeeds == 0..MaxIVSeed
IVOf(seed) == [i \in 1..IVSize |-> (seed * 37 + i * 11) % 256]

\* AESCipher.__init__
NewAES(key) == [key |-> key, block_size |-> BlockSize]

Raised(err) == [raised |-> TRUE, error |-> err, value |-> None]
Returned(v) == [raised |-> FALSE, error |-> NoError, value |-> v]

\* encrypt that runs CBC from one fixed IV whatever os.urandom drew
encrypt_FixedIV(self, plaintext, iv) ==
    LET enc == Utf8Encode(plaintext)
    IN  IF ~enc.ok THEN Raised("UnicodeEncodeError")
        ELSE IF ~ValidKey(self.key) THEN Raised("InvalidKey")
        ELSE Returned(IVOf(0) \o CBCEncrypt(self.key, IVOf(0), Pkcs7Pad(enc.bytes)))

\* encrypt that returns the IV after the cipher blocks
encrypt_IVLast(self, plaintext, iv) ==
    LET enc == Utf8Encode(plaintext)
    IN  IF ~enc.ok THEN Raised("UnicodeEncodeError")
        ELSE IF ~ValidKey(self.key) THEN Raised("InvalidKey")
        ELSE Returned(CBCEncrypt(self.key, iv, Pkcs7Pad(enc.bytes)) \o iv)

\* AESCipher.encrypt with the IV that os.urandom drew
encrypt(self, plaintext, iv) ==
    LET enc == Utf8Encode(plaintext)
    IN  IF ~enc.ok THEN Raised("UnicodeEncodeError")
        ELSE IF ~ValidKey(self.key) THEN Raised("InvalidKey")
        ELSE Returned(iv \o CBCEncrypt(self.key, iv, Pkcs7Pad(enc.bytes)))

\* AESCipher.decrypt
decrypt(self, ciphertext) ==
    LET iv == SubSeq(ciphertext, 1, Min(IVSize, Len(ciphertext)))
        actual_ciphertext == SubSeq(ciphertext, IVSize + 1, Len(ciphertext))
    IN  IF ~ValidKey(self.key) THEN Raised("InvalidKey")
        ELSE IF Len(iv) # IVSize THEN Raised("InvalidIV")
        ELSE IF Len(actual_ciphertext) % BlockSize # 0 THEN Raised("BlockLength")
        ELSE LET padded_plaintext == CBCDecrypt(self.key, iv, actual_ciphertext)
                 unp == Pkcs7Unpad(padded_plaintext)
             IN  IF ~unp.ok THEN Raised("PaddingError")
                 ELSE LET dec == Utf8Decode(unp.data)
                      IN  IF ~dec.ok THEN Raised("UnicodeDecodeError")
                          ELSE Returned(dec.str)

\* --------------------------------------------------------------- transport

VARIABLES server, client, net, hist, unit

vars == << server, client, net, hist, unit >>

\* a direction of the connection is the sequence of writes not yet read,
\* each a byte string; a read takes a prefix of their concatenation
RECURSIVE Flatten(_)
Flatten(stream) ==
    IF stream = << >> THEN << >> ELSE Head(stream) \o Flatten(Tail(stream))

RECURSIVE DropBytes(_, _)
DropBytes(stream, k) ==
    IF k = 0 \/ stream = << >> THEN stream
    ELSE IF k >= Len(Head(stream)) THEN DropBytes(Tail(stream), k - Len(Head(stream)))
    ELSE << SubSeq(Head(stream), k + 1, Len(Head(stream))) >> \o Tail(stream)

Abs(n) == IF n < 0 THEN 0 - n ELSE n

\* the sizes socket.recv(RecvMax) may return for the buffered stream: one
\* whole write, everything buffered, or a cut near the first write boundary
ReadSizes(stream) ==
    LET total == Len(Flatten(stream))
        first == Len(Head(stream))
    IN  { k \in 1..Min(total, RecvMax) :
            k = first \/ k = total \/ Abs(k - first) <= MaxSplit }

\* what socket.recv may give: data, b"" after an orderly close by the peer,
\* ConnectionResetError after a reset; otherwise the call blocks
RecvOutcomes(stream, rst, peerSock) ==
    IF stream # << >>
    THEN { [raised |-> FALSE, data |-> SubSeq(Flatten(stream), 1, k),
            rest |-> DropBytes(stream, k), framed |-> k = Len(Head(stream))]
           : k \in ReadSizes(stream) }
    ELSE IF rst
    THEN { [raised |-> TRUE, data |-> << >>, rest |-> << >>, framed |-> TRUE] }
    ELSE IF peerSock = "closed"
    THEN { [raised |-> FALSE, data |-> << >>, rest |-> << >>, framed |-> TRUE] }
    ELSE { }

\* what socket.send may do: queue the bytes; towards a closed or reset
\* connection the bytes are lost and the call may raise
SendOutcomes(rst, peerSock) ==
    IF rst \/ peerSock = "closed" THEN {"lost", "error"} ELSE {"ok"}

Sent(stream, data, how) == IF how = "ok" THEN Append(stream, data) ELSE stream

\* socket.close() by the server / the client: unread inbound bytes are
\* discarded, and discarding any resets the connection
ServerCloses(n) == [n EXCEPT !.rst = n.rst \/ n.c2s # << >>, !.c2s = << >>]
ClientCloses(n) == [n EXCEPT !.rst = n.rst \/ n.s2c # << >>, !.s2c = << >>]

\* --------------------------------------------------------- session history

Enter(trace, state) == Append(trace, state)
Now(trace) == trace[Len(trace)]
Seen(trace) == { trace[i] : i \in 1..Len(trace) }

\* the writes of the session: who called send, with which bytes, and whether
\* the writer was still in its handshake (hs) or had derived its key
Wrote(wire, who, data, trace) ==
    Append(wire, [from |-> who, data |-> data, hs |-> "ESTABLISHED" \notin Seen(trace)])

\* the statement after pc in a body whose blocking calls and local steps
\* come in the given order
After(order, pc) ==
    order[(CHOOSE i \in 1..(Len(order) - 1) : order[i] = pc) + 1]

\* ----------------------------------------------------------------- server

\* run_server's loop sending its response before it reads the message
ServerOrder_RespondFirst ==
    << "accept", "send_key", "recv_key", "derive", "respond", "recv_msg", "close" >>

\* the body of run_server's loop, statement by statement
ServerOrder ==
    << "accept", "send_key", "recv_key", "derive", "recv_msg", "respond", "close" >>

\* the exception caught inside the loop body: finally runs and the loop
\* goes on with the error only noted
ServerFailed_Caught(s, err) ==
    [s EXCEPT !.pc = "close", !.error = err]

\* the exception swallowed after the socket is closed: the loop goes on
ServerFailed_LoopGoesOn(s, err) ==
    [s EXCEPT !.pc = "accept", !.sock = "closed", !.error = err]

\* an exception inside try: finally closes the socket, then the exception
\* leaves the while loop and run_server
ServerFailed(s, err) ==
    [s EXCEPT !.pc = "raised", !.sock = "closed", !.error = err]

ServerRaises(err, n) ==
    /\ server' = ServerFailed(server, err)
    /\ net' = ServerCloses(n)

\* server_socket.accept(); oldKey is what ecdh.shared_key holds when the
\* session begins; the locals of the loop body are assigned anew in
\* every iteration before they are read, so they start each session unset
ServerAccept ==
    /\ server.pc = "accept"
    /\ net.conn = "pending"
    /\ server' = [server EXCEPT !.pc = After(ServerOrder, "accept"),
                                 !.sock = "open",
                                 !.client_public_key = None, !.shared_key = None,
                                 !.aes_cipher = None, !.encrypted_message = None,
                                 !.decrypted_message = None]
    /\ net' = [net EXCEPT !.conn = "open"]
    /\ hist' = [hist EXCEPT !.oldKey = server.ecdh.shared_key]
    /\ UNCHANGED << client, unit >>

\* server_public_key = ecdh.get_public_bytes(); client_socket.send(...)
ServerSendKey ==
    /\ server.pc = "send_key"
    /\ \E how \in SendOutcomes(net.rst, client.sock) :
          IF how = "error"
          THEN /\ ServerRaises("TransportError", net)
               /\ hist' = [hist EXCEPT
                             !.keyUse = @ \cup {<< hist.session, server.ecdhId >>}]
          ELSE /\ server' = [server EXCEPT !.pc = After(ServerOrder, "send_key")]
               /\ net' = [net EXCEPT
                            !.s2c = Sent(@, get_public_bytes(server.ecdh), how)]
               /\ hist' = [hist EXCEPT
                             !.keyUse = @ \cup {<< hist.session, server.ecdhId >>},
                             !.srvHS = Enter(@, "KEY_SENT"),
                             !.wire = Wrote(@, "server", get_public_bytes(server.ecdh),
                                            hist.srvHS)]
    /\ UNCHANGED << client, unit >>

\* client_public_key = client_socket.recv(4096)
ServerRecvKey ==
    /\ server.pc = "recv_key"
    /\ \E r \in RecvOutcomes(net.c2s, net.rst, client.sock) :
          IF r.raised
          THEN /\ ServerRaises("TransportError", net)
               /\ UNCHANGED hist
          ELSE /\ server' = [server EXCEPT !.pc = After(ServerOrder, "recv_key"),
                                           !.client_public_key = r.data]
               /\ net' = [net EXCEPT !.c2s = r.rest]
               /\ hist' = [hist EXCEPT !.srvHS = Enter(@, "KEY_RECEIVED"),
                                       !.framed = @ /\ r.framed]
    /\ UNCHANGED << client, unit >>

\* ServerDerive that builds the cipher with the key ecdh.shared_key held
\* before the call, when it held one
ServerDerive_StaleKey ==
    /\ server.pc = "derive"
    /\ LET r == compute_shared_secret(server.ecdh, server.client_public_key)
           k == IF server.ecdh.shared_key = None THEN r.value
                ELSE server.ecdh.shared_key
       IN  IF r.raised
           THEN /\ server' = ServerFailed([server EXCEPT !.ecdh = r.self], r.error)
                /\ net' = ServerCloses(net)
                /\ UNCHANGED hist
           ELSE /\ server' = [server EXCEPT !.pc = After(ServerOrder, "derive"),
                                            !.ecdh = r.self,
                                            !.shared_key = k,
                                            !.aes_cipher = NewAES(k)]
                /\ hist' = [hist EXCEPT !.srvHS = Enter(@, "ESTABLISHED")]
                /\ UNCHANGED net
    /\ UNCHANGED << client, unit >>

\* shared_key = ecdh.compute_shared_secret(client_public_key);
\* aes_cipher = AESCipher(shared_key)
ServerDerive ==
    /\ server.pc = "derive"
    /\ LET r == compute_shared_secret(server.ecdh, server.client_public_key)
       IN  IF r.raised
           THEN /\ server' = ServerFailed([server EXCEPT !.ecdh = r.self], r.error)
                /\ net' = ServerCloses(net)
                /\ hist' = [hist EXCEPT
                              !.keyUse = @ \cup {<< hist.session, server.ecdhId >>}]
           ELSE /\ server' = [server EXCEPT !.pc = After(ServerOrder, "derive"),
                                            !.ecdh = r.self,
                                            !.shared_key = r.value,
                                            !.aes_cipher = NewAES(r.value)]
                /\ hist' = [hist EXCEPT
                              !.keyUse = @ \cup {<< hist.session, server.ecdhId >>},
                              !.srvHS = Enter(@, "ESTABLISHED")]
                /\ UNCHANGED net
    /\ UNCHANGED << client, unit >>

\* encrypted_message = client_socket.recv(4096);
\* decrypted_message = aes_cipher.decrypt(encrypted_message)
ServerRecvMsg ==
    /\ server.pc = "recv_msg"
    /\ \E r \in RecvOutcomes(net.c2s, net.rst, client.sock) :
          IF r.raised
          THEN /\ ServerRaises("TransportError", net)
               /\ UNCHANGED hist
          ELSE LET d == decrypt(server.aes_cipher, r.data)
                   s == [server EXCEPT !.encrypted_message = r.data]
               IN  /\ IF d.raised
                      THEN /\ server' = ServerFailed(s, d.error)
                           /\ net' = ServerCloses([net EXCEPT !.c2s = r.rest])
                      ELSE /\ server' = [s EXCEPT !.pc = After(ServerOrder, "recv_msg"),
                                                  !.decrypted_message = d.value]
                           /\ net' = [net EXCEPT !.c2s = r.rest]
                   /\ hist' = [hist EXCEPT !.framed = @ /\ r.framed,
                                           !.srvApp = @ + 1,
                                           !.srvUsed = @ \cup {server.aes_cipher.key}]
    /\ UNCHANGED << client, unit >>

\* ServerRespond that first replaces the cipher by one keyed with the hash
\* of the session key
ServerRespond_Rekeys ==
    /\ server.pc = "respond"
    /\ \E seed \in IVSeeds, how \in SendOutcomes(net.rst, client.sock) :
          LET fresh == NewAES(sha256(server.aes_cipher.key))
              e == encrypt(fresh, ServerResponse, IVOf(seed))
          IN  IF e.raised \/ how = "error"
              THEN /\ ServerRaises(IF e.raised THEN e.error ELSE "TransportError", net)
                   /\ UNCHANGED hist
              ELSE /\ server' = [server EXCEPT !.pc = After(ServerOrder, "respond"),
                                               !.aes_cipher = fresh]
                   /\ net' = [net EXCEPT !.s2c = Sent(@, e.value, how)]
                   /\ hist' = [hist EXCEPT
                                 !.srvApp = @ + 1,
                                 !.srvUsed = @ \cup {fresh.key},
                                 !.wire = Wrote(@, "server", e.value, hist.srvHS)]
    /\ UNCHANGED << client, unit >>

\* encrypted_response = aes_cipher.encrypt(response);
\* client_socket.send(encrypted_response)
ServerRespond ==
    /\ server.pc = "respond"
    /\ \E seed \in IVSeeds, how \in SendOutcomes(net.rst, client.sock) :
          LET e == encrypt(server.aes_cipher, ServerResponse, IVOf(seed))
          IN  IF e.raised
              THEN /\ ServerRaises(e.error, net)
                   /\ UNCHANGED hist
              ELSE IF how = "error"
                   THEN /\ ServerRaises("TransportError", net)
                        /\ hist' = [hist EXCEPT
                                      !.srvApp = @ + 1,
                                      !.srvUsed = @ \cup {server.aes_cipher.key}]
                   ELSE /\ server' = [server EXCEPT
                                        !.pc = After(ServerOrder, "respond")]
                        /\ net' = [net EXCEPT !.s2c = Sent(@, e.value, how)]
                        /\ hist' = [hist EXCEPT
                                      !.srvApp = @ + 1,
                                      !.srvUsed = @ \cup {server.aes_cipher.key},
                                      !.wire = Wrote(@, "server", e.value, hist.srvHS)]
    /\ UNCHANGED << client, unit >>

\* the loop going back to accept without closing the connection socket
ServerClose_KeepsOpen ==
    /\ server.pc = "close"
    /\ server' = [server EXCEPT !.pc = ServerOrder[1]]
    /\ UNCHANGED << client, net, hist, unit >>

\* finally: client_socket.close(), then the loop waits for a connection
ServerClose ==
    /\ server.pc = "close"
    /\ server' = [server EXCEPT !.pc = ServerOrder[1], !.sock = "closed"]
    /\ net' = ServerCloses(net)
    /\ UNCHANGED << client, hist, unit >>

\* ----------------------------------------------------------------- client

\* run_client sending its key before it reads the server's, as the server does
ClientOrder_SendFirst ==
    << "send_key", "recv_key", "derive", "send_msg", "recv_resp", "close" >>

\* run_client sending its message as soon as it has derived the key, before
\* its own public key
ClientOrder_MessageFirst ==
    << "recv_key", "derive", "send_msg", "send_key", "recv_resp", "close" >>

\* the try body of run_client, statement by statement
ClientOrder ==
    << "recv_key", "send_key", "derive", "send_msg", "recv_resp", "close" >>

\* the server end as the client's socket sees it: a connection still in the
\* listen backlog is open
ServerEnd == IF net.conn = "open" THEN server.sock ELSE "open"

\* an exception that leaves run_client with the socket still open
ClientFailed_LeavesOpen(c, err) ==
    [c EXCEPT !.pc = "raised", !.error = err]

\* an exception inside try: finally closes the socket, then the exception
\* leaves run_client
ClientFailed(c, err) ==
    [c EXCEPT !.pc = "raised", !.sock = "closed", !.error = err]

ClientRaises(err, n) ==
    /\ client' = ClientFailed(client, err)
    /\ net' = ClientCloses(n)

\* run_client up to connect: ecdh = ECDHKeyExchange(); client_socket.connect
ClientStart ==
    /\ client.pc \in {"off", "done", "raised"}
    /\ server.pc = "accept"
    /\ net.conn # "pending"
    /\ hist.session < MaxSessions
    /\ \E priv \in PrivKeys :
          client' = [pc |-> ClientOrder[1], ecdh |-> NewECDH(priv),
                     ecdhId |-> hist.gens + 1, sock |-> "open",
                     server_public_key |-> None, shared_key |-> None,
                     aes_cipher |-> None, encrypted_response |-> None,
                     decrypted_response |-> None, error |-> NoError]
    /\ net' = [conn |-> "pending", c2s |-> << >>, s2c |-> << >>, rst |-> FALSE]
    /\ hist' = [hist EXCEPT !.session = @ + 1, !.gens = @ + 1,
                            !.tampered = FALSE, !.framed = TRUE,
                            !.srvHS = << "INIT" >>, !.cliHS = << "INIT" >>,
                            !.srvApp = 0, !.cliApp = 0, !.wire = << >>,
                            !.srvUsed = { }, !.cliUsed = { }]
    /\ UNCHANGED << server, unit >>

\* server_public_key = client_socket.recv(4096)
ClientRecvKey ==
    /\ client.pc = "recv_key"
    /\ \E r \in RecvOutcomes(net.s2c, net.rst, ServerEnd) :
          IF r.raised
          THEN /\ ClientRaises("TransportError", net)
               /\ UNCHANGED hist
          ELSE /\ client' = [client EXCEPT !.pc = After(ClientOrder, "recv_key"),
                                           !.server_public_key = r.data]
               /\ net' = [net EXCEPT !.s2c = r.rest]
               /\ hist' = [hist EXCEPT !.cliHS = Enter(@, "KEY_RECEIVED"),
                                       !.framed = @ /\ r.framed]
    /\ UNCHANGED << server, unit >>

\* client_public_key = ecdh.get_public_bytes(); client_socket.send(...)
ClientSendKey ==
    /\ client.pc = "send_key"
    /\ \E how \in SendOutcomes(net.rst, ServerEnd) :
          IF how = "error"
          THEN /\ ClientRaises("TransportError", net)
               /\ hist' = [hist EXCEPT
                             !.keyUse = @ \cup {<< hist.session, client.ecdhId >>}]
          ELSE /\ client' = [client EXCEPT !.pc = After(ClientOrder, "send_key")]
               /\ net' = [net EXCEPT
                            !.c2s = Sent(@, get_public_bytes(client.ecdh), how)]
               /\ hist' = [hist EXCEPT
                             !.keyUse = @ \cup {<< hist.session, client.ecdhId >>},
                             !.cliHS = Enter(@, "KEY_SENT"),
                             !.wire = Wrote(@, "client", get_public_bytes(client.ecdh),
                                            hist.cliHS)]
    /\ UNCHANGED << server, unit >>

\* shared_key = ecdh.compute_shared_secret(server_public_key);
\* aes_cipher = AESCipher(shared_key)
ClientDerive ==
    /\ client.pc = "derive"
    /\ LET r == compute_shared_secret(client.ecdh, client.server_public_key)
       IN  IF r.raised
           THEN /\ client' = ClientFailed([client EXCEPT !.ecdh = r.self], r.error)
                /\ net' = ClientCloses(net)
                /\ UNCHANGED hist
           ELSE /\ client' = [client EXCEPT !.pc = After(ClientOrder, "derive"),
                                            !.ecdh = r.self,
                                            !.shared_key = r.value,
                                            !.aes_cipher = NewAES(r.value)]
                /\ hist' = [hist EXCEPT !.cliHS = Enter(@, "ESTABLISHED")]
                /\ UNCHANGED net
    /\ UNCHANGED << server, unit >>

\* encrypted_message = aes_cipher.encrypt(message);
\* client_socket.send(encrypted_message)
ClientSendMsg ==
    /\ client.pc = "send_msg"
    /\ \E seed \in IVSeeds, how \in SendOutcomes(net.rst, ServerEnd) :
          LET e == encrypt(client.aes_cipher, ClientMessage, IVOf(seed))
          IN  IF e.raised
              THEN /\ ClientRaises(e.error, net)
                   /\ UNCHANGED hist
              ELSE IF how = "error"
                   THEN /\ ClientRaises("TransportError", net)
                        /\ hist' = [hist EXCEPT
                                      !.cliApp = @ + 1,
                                      !.cliUsed = @ \cup {client.aes_cipher.key}]
                   ELSE /\ client' = [client EXCEPT
                                        !.pc = After(ClientOrder, "send_msg")]
                        /\ net' = [net EXCEPT !.c2s = Sent(@, e.value, how)]
                        /\ hist' = [hist EXCEPT
                                      !.cliApp = @ + 1,
                                      !.cliUsed = @ \cup {client.aes_cipher.key},
                                      !.wire = Wrote(@, "client", e.value, hist.cliHS)]
    /\ UNCHANGED << server, unit >>

\* encrypted_response = client_socket.recv(4096);
\* decrypted_response = aes_cipher.decrypt(encrypted_response)
ClientRecvResp ==
    /\ client.pc = "recv_resp"
    /\ \E r \in RecvOutcomes(net.s2c, net.rst, ServerEnd) :
          IF r.raised
          THEN /\ ClientRaises("TransportError", net)
               /\ UNCHANGED hist
          ELSE LET d == decrypt(client.aes_cipher, r.data)
                   c == [client EXCEPT !.encrypted_response = r.data]
               IN  /\ IF d.raised
                      THEN /\ client' = ClientFailed(c, d.error)
                           /\ net' = ClientCloses([net EXCEPT !.s2c = r.rest])
                      ELSE /\ client' = [c EXCEPT !.pc = After(ClientOrder, "recv_resp"),
                                                  !.decrypted_response = d.value]
                           /\ net' = [net EXCEPT !.s2c = r.rest]
                   /\ hist' = [hist EXCEPT !.framed = @ /\ r.framed,
                                           !.cliApp = @ + 1,
                                           !.cliUsed = @ \cup {client.aes_cipher.key}]
    /\ UNCHANGED << server, unit >>

\* finally: client_socket.close(), then run_client returns
ClientClose ==
    /\ client.pc = "close"
    /\ client' = [client EXCEPT !.pc = "done", !.sock = "closed"]
    /\ net' = ClientCloses(net)
    /\ UNCHANGED << server, hist, unit >>

\* ------------------------------------------------------------ the network

\* what an active network may turn a write in flight into: one byte
\* altered, or a public key replaced by another valid one
Alterations(chunk) ==
    { [chunk EXCEPT ![i] = Xor(@, 1)] : i \in {2, 3, Len(chunk)} \cap 1..Len(chunk) }
      \cup (IF Len(chunk) = PemLen /\ load_pem_public_key(chunk).ok
            THEN { PemEncode(PublicKeyOf(a)) : a \in PrivKeys } \ { chunk }
            ELSE { })

TamperC2S ==
    /\ hist.faults < MaxFaults
    /\ net.c2s # << >>
    /\ \E alt \in Alterations(Head(net.c2s)) :
          net' = [net EXCEPT !.c2s = << alt >> \o Tail(@)]
    /\ hist' = [hist EXCEPT !.faults = @ + 1, !.tampered = TRUE]
    /\ UNCHANGED << server, client, unit >>

TamperS2C ==
    /\ hist.faults < MaxFaults
    /\ net.s2c # << >>
    /\ \E alt \in Alterations(Head(net.s2c)) :
          net' = [net EXCEPT !.s2c = << alt >> \o Tail(@)]
    /\ hist' = [hist EXCEPT !.faults = @ + 1, !.tampered = TRUE]
    /\ UNCHANGED << server, client, unit >>

\* the connection is reset under both peers: buffered bytes are lost
NetReset ==
    /\ hist.faults < MaxFaults
    /\ net.conn = "open"
    /\ ~net.rst
    /\ server.sock = "open" \/ client.sock = "open"
    /\ net' = [net EXCEPT !.rst = TRUE, !.c2s = << >>, !.s2c = << >>]
    /\ hist' = [hist EXCEPT !.faults = @ + 1, !.tampered = TRUE]
    /\ UNCHANGED << server, client, unit >>

\* ------------------------------------------------------------ specification

UnitIdle == [op |-> "none"]

\* run_server up to listen(): ecdh = ECDHKeyExchange(), once, before the loop
Init ==
    /\ \E priv \in PrivKeys :
          server = [pc |-> "accept", ecdh |-> NewECDH(priv), ecdhId |-> 1,
                    sock |-> "none", client_public_key |-> None,
                    shared_key |-> None, aes_cipher |-> None,
                    encrypted_message |-> None, decrypted_message |-> None,
                    error |-> NoError]
    /\ client = [pc |-> "off", ecdh |-> None, ecdhId |-> 0, sock |-> "none",
                 server_public_key |-> None, shared_key |-> None,
                 aes_cipher |-> None, encrypted_response |-> None,
                 decrypted_response |-> None, error |-> NoError]
    /\ net = [conn |-> "none", c2s |-> << >>, s2c |-> << >>, rst |-> FALSE]
    /\ hist = [session |-> 0, gens |-> 1, faults |-> 0, tampered |-> FALSE,
               framed |-> TRUE, keyUse |-> { }, srvHS |-> << "INIT" >>,
               cliHS |-> << "INIT" >>, srvApp |-> 0, cliApp |-> 0, wire |-> << >>,
               srvUsed |-> { }, cliUsed |-> { }, oldKey |-> None]
    /\ unit = UnitIdle

Next ==
    \/ ServerAccept
    \/ ServerSendKey
    \/ ServerRecvKey
    \/ ServerDerive
    \/ ServerRecvMsg
    \/ ServerRespond
    \/ ServerClose
    \/ ClientStart
    \/ ClientRecvKey
    \/ ClientSendKey
    \/ ClientDerive
    \/ ClientSendMsg
    \/ ClientRecvResp
    \/ ClientClose
    \/ TamperC2S
    \/ TamperS2C
    \/ NetReset

Spec == Init /\ [][Next]_vars

\* ------------------------------------------------- the classes on their own
\* One object, an ECDHKeyExchange or an AESCipher, driven call by call with
\* arguments of bounded sets; unit records the object and its last call: the
\* object before it, the arguments and what the call gave.

Fill(n) == [i \in 1..n |-> 97]

\* str arguments of encrypt: a head of 0..1 characters that take 1, 2, 3 and
\* 4 bytes in UTF-8 or cannot be encoded, then a run of 'a' that ends before,
\* at and after a block boundary
Heads == { << >>, << 233 >>, << 8364 >>, << 128512 >>, << 55296 >> }
FillLens == { 0, 1, BlockSize - 1, BlockSize, MaxFill }
Plaintexts == { h \o Fill(n) : h \in Heads, n \in FillLens }

\* byte strings handed to compute_shared_secret as the peer's public key:
\* every prefix of a peer's encoding, one-byte changes of it, trailing
\* bytes, a point off the curve
PeerInputs ==
    UNION { LET valid == get_public_bytes(NewECDH(pb))
            IN  { SubSeq(valid, 1, n) : n \in 0..Len(valid) }
                  \cup Alterations(valid)
                  \cup { valid \o << 0 >> }
            : pb \in PrivKeys }
      \cup { PemEncode(<< 0, 0 >>) }

\* keys an AESCipher is built with: the shared keys of the key pairs
SessionKeys ==
    { compute_shared_secret(NewECDH(pa), get_public_bytes(NewECDH(pb))).value
      : pa \in PrivKeys, pb \in PrivKeys }

\* byte strings handed to decrypt: a ciphertext as encrypt returned it, cut
\* short (to nothing, inside the IV, to the IV alone, inside a block), or
\* with one byte changed in its low or its high bit
CipherInputs(ct) ==
    { ct, SubSeq(ct, 1, Len(ct) - 1), SubSeq(ct, 1, IVSize), SubSeq(ct, 1, 3),
      << >> }
      \cup { [ct EXCEPT ![i] = Xor(@, b)] :
                i \in {1, IVSize, IVSize + 1, Len(ct)}, b \in {1, 128} }

UnitStart(kind, obj) ==
    [kind |-> kind, obj |-> obj, op |-> "init", before |-> obj,
     input |-> << >>, iv |-> << >>, result |-> Returned(None),
     plaintext |-> << >>, intact |-> FALSE, prevIv |-> << >>, repeat |-> FALSE]

UnitInit ==
    /\ \/ \E priv \in PrivKeys : unit = UnitStart("ecdh", NewECDH(priv))
       \/ \E key \in SessionKeys : unit = UnitStart("aes", NewAES(key))
    /\ server = [pc |-> "off"]
    /\ client = [pc |-> "off"]
    /\ net = [conn |-> "none"]
    /\ hist = [session |-> 0]

\* obj.compute_shared_secret(data)
UnitCompute ==
    /\ unit.kind = "ecdh"
    /\ \E data \in PeerInputs :
          LET r == compute_shared_secret(unit.obj, data)
          IN  unit' = [unit EXCEPT !.op = "compute_shared_secret",
                                   !.before = unit.obj, !.obj = r.self,
                                   !.input = data,
                                   !.result = [raised |-> r.raised, error |-> r.error,
                                               value |-> r.value]]
    /\ UNCHANGED << server, client, net, hist >>

\* obj.get_public_bytes()
UnitPublicBytes ==
    /\ unit.kind = "ecdh"
    /\ unit' = [unit EXCEPT !.op = "get_public_bytes", !.before = unit.obj,
                            !.input = << >>,
                            !.result = Returned(get_public_bytes(unit.obj))]
    /\ UNCHANGED << server, client, net, hist >>

\* obj.encrypt(plaintext); while encrypt is the last call, prevIv is the IV
\* of the encrypt call before it and repeat tells that both calls were given
\* the same plaintext
UnitEncrypt ==
    /\ unit.kind = "aes"
    /\ \E plaintext \in Plaintexts, seed \in IVSeeds :
          unit' = [unit EXCEPT !.op = "encrypt", !.before = unit.obj,
                               !.input = plaintext, !.iv = IVOf(seed),
                               !.result = encrypt(unit.obj, plaintext, IVOf(seed)),
                               !.plaintext = plaintext, !.intact = FALSE,
                               !.prevIv = unit.iv,
                               !.repeat = (unit.iv # << >> /\ plaintext = unit.plaintext)]
    /\ UNCHANGED << server, client, net, hist >>

\* obj.decrypt(data) for what the last encrypt returned, as it is or altered
UnitDecrypt ==
    /\ unit.kind = "aes"
    /\ unit.op = "encrypt"
    /\ ~unit.result.raised
    /\ \E data \in CipherInputs(unit.result.value) :
          unit' = [unit EXCEPT !.op = "decrypt", !.before = unit.obj,
                               !.input = data,
                               !.result = decrypt(unit.obj, data),
                               !.intact = (data = unit.result.value),
                               !.prevIv = << >>, !.repeat = FALSE]
    /\ UNCHANGED << server, client, net, hist >>

UnitNext ==
    \/ UnitCompute
    \/ UnitPublicBytes
    \/ UnitEncrypt
    \/ UnitDecrypt

SpecUnit == UnitInit /\ [][UnitNext]_vars

\* ------------------------------------------------------------------ claims

HandshakeOrder == << "INIT", "KEY_SENT", "KEY_RECEIVED", "ESTABLISHED" >>
ClientHandshakeOrder == << "INIT", "KEY_RECEIVED", "KEY_SENT", "ESTABLISHED" >>

IsPrefix(t, order) == Len(t) <= Len(order) /\ t = SubSeq(order, 1, Len(t))

\* both peers have derived their key in the current session
BothEstablished ==
    /\ net.conn = "open"
    /\ Now(hist.srvHS) = "ESTABLISHED"
    /\ Now(hist.cliHS) = "ESTABLISHED"

\* C1: in a session whose transport altered nothing, once the client and the
\* server have both computed the shared secret from the other's public bytes,
\* the key the client holds equals the key the server holds, for every pair
\* of key pairs the two generated.
C1_KeyAgreement ==
    (BothEstablished /\ ~hist.tampered)
      => /\ server.shared_key = client.shared_key
         /\ server.ecdh.shared_key = client.ecdh.shared_key
         /\ server.aes_cipher.key = client.aes_cipher.key

C1_Witness ==
    /\ BothEstablished
    /\ ~hist.tampered
    /\ server.ecdh.private_key # client.ecdh.private_key
    /\ server.shared_key = client.shared_key

\* C2: in a session where every read returned exactly one write and nothing
\* was altered, no peer fails, both derive the same key of DigestSize bytes,
\* the server decrypts the client's message to the text the client encrypted
\* and the client decrypts the response to the text the server encrypted.
C2_EndToEnd ==
    (net.conn = "open" /\ hist.framed /\ ~hist.tampered)
      => /\ server.pc # "raised" /\ client.pc # "raised"
         /\ BothEstablished
              => /\ server.shared_key = client.shared_key
                 /\ Len(server.shared_key) = DigestSize
                 /\ Len(client.shared_key) = DigestSize
         /\ server.pc \in {"respond", "close"}
              => server.decrypted_message = ClientMessage
         /\ client.pc \in {"close", "done"}
              => client.decrypted_response = ServerResponse

C2_Witness ==
    /\ hist.framed
    /\ ~hist.tampered
    /\ client.pc = "done"
    /\ client.decrypted_response = ServerResponse
    /\ server.decrypted_message = ClientMessage
    /\ Len(client.shared_key) = DigestSize

\* C3: decrypt, given what encrypt returned for a plaintext under the same
\* key, returns that plaintext, for every plaintext encrypt accepts, every
\* key and every IV drawn.
C3_RoundTrip ==
    (unit.op = "decrypt" /\ unit.intact)
      => /\ ~unit.result.raised
         /\ unit.result.value = unit.plaintext

C3_Witness ==
    /\ unit.op = "decrypt"
    /\ unit.intact
    /\ Len(unit.plaintext) = BlockSize
    /\ unit.result.value = unit.plaintext

\* C4 as stated: each peer, in either role, passes the handshake states in
\* the order INIT, KEY_SENT, KEY_RECEIVED, ESTABLISHED.
C4_SameOrderBothRoles ==
    /\ IsPrefix(hist.srvHS, HandshakeOrder)
    /\ IsPrefix(hist.cliHS, HandshakeOrder)

\* C4 amended: the server passes INIT, KEY_SENT, KEY_RECEIVED, ESTABLISHED;
\* the client passes INIT, KEY_RECEIVED, KEY_SENT, ESTABLISHED (it reads the
\* server's key before it sends its own); a peer holds a derived key only
\* when it has both sent and received, and no state is skipped or revisited.
C4_HandshakeOrderByRole ==
    /\ IsPrefix(hist.srvHS, HandshakeOrder)
    /\ IsPrefix(hist.cliHS, ClientHandshakeOrder)
    /\ (net.conn = "open" /\ server.shared_key # None)
         => hist.srvHS = HandshakeOrder
    /\ (client.pc # "off" /\ client.shared_key # None)
         => hist.cliHS = ClientHandshakeOrder

C4_Witness ==
    /\ hist.srvHS = HandshakeOrder
    /\ hist.cliHS = ClientHandshakeOrder
    /\ server.shared_key # None
    /\ client.shared_key # None

\* C5: a peer has encrypted or decrypted application data in the current
\* session only if it has sent its public key, received the peer's and
\* derived the symmetric key, i.e. is ESTABLISHED.
C5_NoTrafficBeforeEstablished ==
    /\ hist.srvApp > 0
         => /\ { "KEY_SENT", "KEY_RECEIVED", "ESTABLISHED" } \subseteq Seen(hist.srvHS)
            /\ server.shared_key # None
    /\ hist.cliApp > 0
         => /\ { "KEY_SENT", "KEY_RECEIVED", "ESTABLISHED" } \subseteq Seen(hist.cliHS)
            /\ client.shared_key # None

C5_Witness ==
    /\ hist.srvApp = 2
    /\ hist.cliApp = 2
    /\ Now(hist.srvHS) = "ESTABLISHED"
    /\ Now(hist.cliHS) = "ESTABLISHED"

\* C6 as stated: no key pair is used in two different sessions.  keyUse holds
\* << session, key pair >> for every call of get_public_bytes or
\* compute_shared_secret; key pairs are numbered as ECDHKeyExchange() makes
\* them.
C6_EphemeralKeys ==
    \A u \in hist.keyUse, v \in hist.keyUse : u[2] = v[2] => u[1] = v[1]

\* C7 as stated: at most one written and not yet read message is outstanding
\* in each direction of the connection.
C7_OneInFlight ==
    /\ Len(net.c2s) <= 1
    /\ Len(net.s2c) <= 1

\* the encodings of the public keys of the curve: k * G for k in 1..CurveN-1
KeyBytesOfCurve == { PemEncode(ScalarMult(k, CurveG)) : k \in 1..(CurveN - 1) }

\* bytes that do not begin with the encoding of a public key of the curve
Malformed(data) ==
    \/ Len(data) < PemLen
    \/ SubSeq(data, 1, PemLen) \notin KeyBytesOfCurve

\* C8: compute_shared_secret given bytes that are empty, truncated or not the
\* encoding of a point of the curve raises a decode error, returns no key
\* and leaves shared_key as it was.
C8_DecodeFailure ==
    (unit.op = "compute_shared_secret" /\ Malformed(unit.input))
      => /\ unit.result.raised
         /\ unit.result.error = "DecodeError"
         /\ unit.result.value = None
         /\ unit.obj.shared_key = unit.before.shared_key

C8_Witness ==
    /\ unit.op = "compute_shared_secret"
    /\ Malformed(unit.input)
    /\ Len(unit.input) = PemLen
    /\ unit.input[2] = PemTagEC
    /\ unit.result.raised
    /\ unit.before.shared_key # None

\* a peer whose handshake failed: an exception left it before it derived a key
ServerHandshakeFailed == server.error # NoError /\ "ESTABLISHED" \notin Seen(hist.srvHS)
ClientHandshakeFailed == client.error # NoError /\ "ESTABLISHED" \notin Seen(hist.cliHS)

\* a peer that an exception has left holds the error for the caller with
\* its socket closed; if the handshake failed it holds no key and has
\* neither encrypted nor decrypted
FailedPeerState ==
    /\ server.error # NoError => (server.pc = "raised" /\ server.sock = "closed")
    /\ client.error # NoError => (client.pc = "raised" /\ client.sock = "closed")
    /\ ServerHandshakeFailed => (hist.srvApp = 0 /\ server.shared_key = None)
    /\ ClientHandshakeFailed => (hist.cliApp = 0 /\ client.shared_key = None)

\* a peer that an exception has left takes no further step in the session
FailedPeerStep ==
    /\ server.error # NoError
         => /\ server' = server
            /\ hist'.srvHS = hist.srvHS
            /\ hist'.srvApp = hist.srvApp
    /\ (client.error # NoError /\ hist'.session = hist.session)
         => /\ client' = client
            /\ hist'.cliHS = hist.cliHS
            /\ hist'.cliApp = hist.cliApp

\* C9: a peer that an exception has left does nothing more in the session:
\* its state, its handshake state and its count of encrypt and decrypt calls
\* never change again (no retry, no renegotiation); the error is held for
\* the caller and the socket is closed; and a peer whose handshake failed
\* holds no key and has neither encrypted nor decrypted.
C9_FailureTerminal == []FailedPeerState /\ [][FailedPeerStep]_vars

C9_Witness ==
    /\ ServerHandshakeFailed
    /\ server.error = "DecodeError"
    /\ server.pc = "raised"
    /\ "KEY_RECEIVED" \in Seen(hist.srvHS)

\* C10: a call that raises leaves its object as it was: a failed
\* compute_shared_secret leaves the key pair and shared_key, a failed encrypt
\* or decrypt leaves the cipher's key.
C10_Atomic ==
    unit.result.raised => unit.obj = unit.before

C10_Witness ==
    /\ unit.op = "compute_shared_secret"
    /\ unit.result.raised
    /\ unit.before.shared_key # None
    /\ unit.obj = unit.before

\* C11 as stated: whatever bytes decrypt is given, it returns a plaintext or
\* raises a padding error, nothing else.
C11_PlaintextOrPaddingError ==
    unit.op = "decrypt" => unit.result.error \in { NoError, "PaddingError" }

\* the ciphertext the last encrypt call returned
LastCiphertext == encrypt(unit.obj, unit.plaintext, unit.iv).value

\* data is ct with exactly one byte changed
OneByteChanged(ct, data) ==
    /\ Len(data) = Len(ct)
    /\ Cardinality({ i \in 1..Len(ct) : data[i] # ct[i] }) = 1

\* decrypt was given the last ciphertext with one byte changed
TamperedDecrypt ==
    /\ unit.op = "decrypt"
    /\ OneByteChanged(LastCiphertext, unit.input)

TransportCalls == { "send_key", "recv_key", "send_msg", "recv_msg", "recv_resp", "respond" }

\* C13 as stated: a send or recv that a peer makes once the other side has
\* closed the connection fails with a transport error: it neither succeeds
\* nor ends in a decode or padding error.
C13_ClosedTransportFails ==
    [][ /\ (server.pc \in TransportCalls /\ client.sock = "closed" /\ server' # server)
             => server'.error = "TransportError"
        /\ (client.pc \in TransportCalls /\ ServerEnd = "closed" /\ client' # client)
             => client'.error = "TransportError" ]_vars

\* an encrypt call that follows an encrypt call on the same cipher, both
\* having returned a ciphertext
SecondEncrypt ==
    /\ unit.op = "encrypt"
    /\ unit'.op = "encrypt"
    /\ ~unit.result.raised
    /\ ~unit'.result.raised

\* C14 as stated: over the encrypt calls under one key no IV is used twice.
C14_NoIVReuse ==
    [][SecondEncrypt => unit'.iv # unit.iv]_vars

\* what ties the ciphertext of an encrypt call to its IV and to the call
\* before it
FreshnessStep ==
    SecondEncrypt
      => LET prev == unit.result.value
             cur  == unit'.result.value
         IN  /\ SubSeq(cur, 1, IVSize) = unit'.iv
             /\ (cur = prev) <=> (unit'.iv = unit.iv /\ unit'.plaintext = unit.plaintext)
             /\ (unit'.plaintext = unit.plaintext /\ unit'.iv # unit.iv)
                  => SubSeq(cur, IVSize + 1, IVSize + BlockSize)
                       # SubSeq(prev, IVSize + 1, IVSize + BlockSize)

\* C14 amended: every encrypt call puts the IV it drew in front of its
\* ciphertext; the draw may repeat an earlier IV; two calls under one key
\* return the same ciphertext exactly when both the IV and the plaintext are
\* the same, so the same plaintext under two different IVs gives two
\* ciphertexts that differ in the IV and in the first cipher block.
C14_FreshIVPerCall ==
    [][FreshnessStep]_vars

\* the same plaintext encrypted twice under one key with two different IVs
C14_Witness ==
    /\ unit.op = "encrypt"
    /\ ~unit.result.raised
    /\ unit.repeat
    /\ unit.prevIv # << >>
    /\ unit.prevIv # unit.iv
    /\ unit.result.value # encrypt(unit.obj, unit.plaintext, unit.prevIv).value

\* the writes of the current session made by who, by position in hist.wire
WritesOf(who) == { i \in 1..Len(hist.wire) : hist.wire[i].from = who }
HandshakeWritesOf(who) == { i \in WritesOf(who) : hist.wire[i].hs }

\* part occurs in data as a run of consecutive bytes
Contains(data, part) ==
    \E i \in 1..(Len(data) - Len(part) + 1) : SubSeq(data, i, i + Len(part) - 1) = part

\* data is what encrypt returns for text under key with one of the IVs
IsCiphertextOf(data, key, text) ==
    \E seed \in IVSeeds :
        data = IVOf(seed) \o CBCEncrypt(key, IVOf(seed), Pkcs7Pad(Utf8Encode(text).bytes))

\* a write made with key pair ecdh and derived key shared_key by a peer whose
\* message is text: in the handshake the encoding of the public point; after
\* it a ciphertext of the message that does not hold the derived key
WriteHolds(w, ecdh, shared_key, text) ==
    IF w.hs
    THEN w.data = PemEncode(PublicKeyOf(ecdh.private_key))
    ELSE /\ IsCiphertextOf(w.data, shared_key, text)
         /\ ~Contains(w.data, shared_key)

\* a peer has made one handshake write once it is past KEY_SENT, none before
OneHandshakeWrite ==
    /\ Cardinality(HandshakeWritesOf("server"))
         = (IF "KEY_SENT" \in Seen(hist.srvHS) THEN 1 ELSE 0)
    /\ Cardinality(HandshakeWritesOf("client"))
         = (IF "KEY_SENT" \in Seen(hist.cliHS) THEN 1 ELSE 0)

\* the record of writes is emptied when a session starts and otherwise only
\* grows, by one write that holds what WriteHolds says
WriteStep ==
    \/ hist'.wire = hist.wire
    \/ hist'.wire = << >> /\ hist'.session = hist.session + 1
    \/ /\ Len(hist'.wire) = Len(hist.wire) + 1
       /\ SubSeq(hist'.wire, 1, Len(hist.wire)) = hist.wire
       /\ LET w == hist'.wire[Len(hist'.wire)]
          IN  IF w.from = "server"
              THEN WriteHolds(w, server'.ecdh, server'.shared_key, ServerResponse)
              ELSE WriteHolds(w, client'.ecdh, client'.shared_key, ClientMessage)

\* C15: in each session each peer writes once during its handshake, exactly
\* the encoding of its own public key; every other write is a ciphertext
\* returned by encrypt; no write holds the derived key.
C15_OnlyPublicKeyOnWire == []OneHandshakeWrite /\ [][WriteStep]_vars

C15_Witness ==
    /\ Len(hist.wire) = 4
    /\ Cardinality(HandshakeWritesOf("server")) = 1
    /\ Cardinality(HandshakeWritesOf("client")) = 1
    /\ hist.wire[1].data = PemEncode(server.ecdh.public_key)
    /\ client.pc = "done"

\* the layout of what the last encrypt call returned for a plaintext of n
\* bytes: the IV, then the CBC encryption of the plaintext followed by
\* 1..BlockSize pad bytes
EncryptLayout ==
    LET bytes == Utf8Encode(unit.plaintext).bytes
        n     == Len(bytes)
        ct    == unit.result.value
        C     == SubSeq(ct, IVSize + 1, Len(ct))
        added == Len(C) - n
    IN  /\ Len(ct) = IVSize + BlockSize * ((n \div BlockSize) + 1)
        /\ SubSeq(ct, 1, IVSize) = unit.iv
        /\ added \in 1..BlockSize
        /\ C = CBCEncrypt(unit.obj.key, unit.iv, bytes \o [i \in 1..added |-> added])

\* decrypt that returned a plaintext took the first IVSize bytes of its
\* input as the IV and the rest as cipher blocks: encrypting the plaintext
\* again with that IV gives the input back
DecryptLayout ==
    encrypt(unit.obj, unit.result.value, SubSeq(unit.input, 1, IVSize)).value = unit.input

\* C16: encrypt returns IV || C, IVSize + BlockSize * (n div BlockSize + 1)
\* bytes for a plaintext of n bytes, C being the CBC encryption of the
\* plaintext and 1..BlockSize pad bytes; decrypt splits its input after the
\* first IVSize bytes.
C16_CiphertextLayout ==
    /\ (unit.op = "encrypt" /\ ~unit.result.raised) => EncryptLayout
    /\ (unit.op = "decrypt" /\ ~unit.result.raised) => DecryptLayout

C16_Witness ==
    /\ unit.op = "encrypt"
    /\ ~unit.result.raised
    /\ Len(Utf8Encode(unit.plaintext).bytes) = BlockSize
    /\ Len(unit.result.value) = IVSize + 2 * BlockSize
    /\ SubSeq(unit.result.value, 1, IVSize) = unit.iv

\* C17: encrypt of the empty plaintext returns IVSize + BlockSize bytes, the
\* IV and one block of padding, and a cipher of the peer built with the same
\* key decrypts them to the empty plaintext without error.
C17_EmptyMessage ==
    (unit.op = "encrypt" /\ unit.plaintext = << >>)
      => /\ ~unit.result.raised
         /\ Len(unit.result.value) = IVSize + BlockSize
         /\ CBCDecrypt(unit.obj.key, unit.iv,
                       SubSeq(unit.result.value, IVSize + 1, IVSize + BlockSize))
              = [i \in 1..BlockSize |-> BlockSize]
         /\ decrypt(NewAES(unit.obj.key), unit.result.value) = Returned(<< >>)

C17_Witness ==
    /\ unit.op = "decrypt"
    /\ unit.intact
    /\ unit.plaintext = << >>
    /\ Len(unit.input) = IVSize + BlockSize
    /\ unit.result = Returned(<< >>)

\* an ESTABLISHED peer holds one key: the one compute_shared_secret returned
\* is the key of its cipher, and every encrypt and decrypt of the session
\* ran under it
OneKeyHeld ==
    /\ Now(hist.srvHS) = "ESTABLISHED"
         => /\ server.aes_cipher = NewAES(server.shared_key)
            /\ server.ecdh.shared_key = server.shared_key
    /\ Now(hist.cliHS) = "ESTABLISHED"
         => /\ client.aes_cipher = NewAES(client.shared_key)
            /\ client.ecdh.shared_key = client.shared_key
    /\ hist.srvUsed \subseteq { server.shared_key }
    /\ hist.cliUsed \subseteq { client.shared_key }

\* no step of an ESTABLISHED peer changes its key or its cipher
KeyKeptStep ==
    /\ (Now(hist.srvHS) = "ESTABLISHED" /\ Now(hist'.srvHS) = "ESTABLISHED")
         => /\ server'.shared_key = server.shared_key
            /\ server'.aes_cipher = server.aes_cipher
            /\ server'.ecdh = server.ecdh
    /\ (Now(hist.cliHS) = "ESTABLISHED" /\ Now(hist'.cliHS) = "ESTABLISHED")
         => /\ client'.shared_key = client.shared_key
            /\ client'.aes_cipher = client.aes_cipher
            /\ client'.ecdh = client.ecdh

\* C18: from ESTABLISHED to the end of the session a peer encrypts and
\* decrypts under one key, the one it derived, and no step changes it.
C18_NoRekeying == []OneKeyHeld /\ [][KeyKeptStep]_vars

C18_Witness ==
    /\ client.pc = "done"
    /\ hist.srvApp = 2
    /\ hist.cliApp = 2
    /\ hist.srvUsed = { server.shared_key }
    /\ hist.cliUsed = { client.shared_key }

\* the raw ECDH output for a private scalar and a peer's public key bytes:
\* the x coordinate of priv * peer, << >> where there is none
RawSecret(priv, data) ==
    LET peer == load_pem_public_key(data)
    IN  IF ~peer.ok \/ peer.alg # PemTagEC THEN << >>
        ELSE LET S == ScalarMult(priv, peer.point)
             IN  IF S = Infinity THEN << >> ELSE << S[1] >>

\* C19: the key compute_shared_secret returns has DigestSize bytes and is
\* the key a new object with the same private key returns for the same peer
\* bytes, whatever calls came before and whatever shared_key held; any
\* private key and peer bytes with the same raw shared secret give the same
\* key, and the returned key is the one stored in shared_key.
C19_DeterministicDerivation ==
    (unit.op = "compute_shared_secret" /\ ~unit.result.raised)
      => /\ Len(unit.result.value) = DigestSize
         /\ unit.result.value \in [1..DigestSize -> 0..255]
         /\ unit.obj.shared_key = unit.result.value
         /\ unit.result.value
              = compute_shared_secret(NewECDH(unit.before.private_key), unit.input).value
         /\ \A priv \in PrivKeys, data \in PeerInputs :
               RawSecret(priv, data) = RawSecret(unit.before.private_key, unit.input)
                 => compute_shared_secret(NewECDH(priv), data).value = unit.result.value

\* a second derivation on an object that held another key from a first one
C19_Witness ==
    /\ unit.op = "compute_shared_secret"
    /\ ~unit.result.raised
    /\ unit.before.shared_key # None
    /\ unit.before.shared_key # unit.result.value
    /\ \E priv \in PrivKeys \ { unit.before.private_key } :
          RawSecret(priv, PemEncode(PublicKeyOf(unit.before.private_key)))
            = RawSecret(unit.before.private_key, unit.input)

\* C20: the bytes get_public_bytes returns depend on the key pair only, so
\* every call on an object returns the same bytes; load_pem_public_key
\* decodes them to the object's public point, and a peer that is given them
\* derives its key from its private scalar times that point.
C20_PublicBytesRoundTrip ==
    unit.op = "get_public_bytes"
      => LET bytes == unit.result.value
             peer  == load_pem_public_key(bytes)
         IN  /\ ~unit.result.raised
             /\ unit.obj = unit.before
             /\ bytes = get_public_bytes(NewECDH(unit.obj.private_key))
             /\ peer.ok
             /\ peer.point = unit.obj.public_key
             /\ peer.point = PublicKeyOf(unit.obj.private_key)
             /\ \A priv \in PrivKeys :
                   LET r == compute_shared_secret(NewECDH(priv), bytes)
                       S == ScalarMult(priv, unit.obj.public_key)
                   IN  ~r.raised /\ r.value = sha256(<< S[1] >>)

\* get_public_bytes called on an object that has derived a key before
C20_Witness ==
    /\ unit.op = "get_public_bytes"
    /\ unit.obj.shared_key # None
    /\ Len(unit.result.value) = PemLen
    /\ load_pem_public_key(unit.result.value).point = unit.obj.public_key

\* a peer is inside recv on an open connection with nothing to read
ServerBlocked ==
    /\ server.pc \in { "recv_key", "recv_msg" }
    /\ server.sock = "open"
    /\ net.c2s = << >>
ClientBlocked ==
    /\ client.pc \in { "recv_key", "recv_resp" }
    /\ client.sock = "open"
    /\ net.s2c = << >>

\* C21 as stated: over a transport that alters and resets nothing and stays
\* open, the two peers are never both blocked in recv with no data in flight
\* towards either.
C21_NoDeadlock ==
    (hist.faults = 0 /\ net.conn = "open" /\ ~net.rst)
      => ~(ServerBlocked /\ ClientBlocked)

\* the key that the client public key bytes received in the current session
\* give with the server's private key
KeyOfThisSession ==
    compute_shared_secret(NewECDH(server.ecdh.private_key),
                          server.client_public_key).value

\* C22: in every server session the cipher is built with the key derived
\* from the client public key bytes received in that session, and every
\* encrypt and decrypt of the session runs under it, whatever key
\* ecdh.shared_key held from an earlier session.
C22_KeyOfThisSession ==
    /\ Now(hist.srvHS) = "ESTABLISHED"
         => /\ server.shared_key = KeyOfThisSession
            /\ server.aes_cipher = NewAES(KeyOfThisSession)
    /\ hist.srvUsed # { } => hist.srvUsed = { KeyOfThisSession }

\* a later session whose key differs from the one the session before left
C22_Witness ==
    /\ hist.session > 1
    /\ hist.oldKey # None
    /\ hist.srvApp = 2
    /\ hist.oldKey # KeyOfThisSession
    /\ hist.srvUsed = { KeyOfThisSession }

\* the writes a peer made after its handshake, by position in hist.wire
MessageWritesOf(who) == WritesOf(who) \ HandshakeWritesOf(who)

\* an exception that left aes_cipher.decrypt
DecryptErrors ==
    { "InvalidKey", "InvalidIV", "BlockLength", "PaddingError", "UnicodeDecodeError" }

\* C23: in a session each peer sends at most one message, both exactly one
\* when the client has finished; the server sends its response only after
\* the client has sent its message and the server has received and
\* decrypted it; a server whose decrypt raised has sent no response.
C23_RequestBeforeResponse ==
    /\ Cardinality(MessageWritesOf("client")) <= 1
    /\ Cardinality(MessageWritesOf("server")) <= 1
    /\ \A s \in MessageWritesOf("server") :
          /\ \E c \in MessageWritesOf("client") : c < s
          /\ server.encrypted_message # None
          /\ server.decrypted_message # None
          /\ server.error \notin DecryptErrors
    /\ (net.conn = "open" /\ server.error \in DecryptErrors)
         => MessageWritesOf("server") = { }
    /\ client.pc = "done"
         => /\ Cardinality(MessageWritesOf("client")) = 1
            /\ Cardinality(MessageWritesOf("server")) = 1

\* the server's decrypt raised on the client's message: no response
C23_Witness ==
    /\ net.conn = "open"
    /\ server.error = "PaddingError"
    /\ Cardinality(MessageWritesOf("client")) = 1
    /\ MessageWritesOf("server") = { }
    /\ client.pc = "raised"

\* the statements inside try, where a peer holds its connection socket
ServerInSession == { ServerOrder[i] : i \in 2..Len(ServerOrder) }
ClientInSession == { ClientOrder[i] : i \in 1..Len(ClientOrder) }

\* C24: a peer's connection socket is open only while the peer is inside
\* the try body of its session: when control has left it, by the end of the
\* body or by an exception at any step, the socket is closed.
C24_ConnectionReleased ==
    /\ server.sock = "open" => server.pc \in ServerInSession
    /\ client.sock = "open" => client.pc \in ClientInSession
    /\ server.pc = "raised" => server.sock = "closed"
    /\ client.pc \in { "done", "raised" } => client.sock = "closed"
    /\ (server.pc = "accept" /\ hist.srvApp > 0) => server.sock = "closed"

\* both peers left the session by an exception and both sockets are closed
C24_Witness ==
    /\ server.pc = "raised"
    /\ client.pc = "raised"
    /\ server.error \in DecryptErrors
    /\ client.error # NoError
    /\ server.sock = "closed"
    /\ client.sock = "closed"

\* a server that an exception has left is out of the loop for good, and the
\* server comes back to accept only from the end of a loop body that no
\* exception interrupted
ServerLoopStep ==
    /\ server.pc = "raised"
         => /\ server' = server
            /\ hist'.session = hist.session
            /\ net'.conn = net.conn
    /\ (server.pc # "accept" /\ server'.pc = "accept")
         => /\ server.pc = "close"
            /\ server.error = NoError
            /\ server'.sock = "closed"
    /\ (server.pc = "accept" /\ server'.pc # "accept")
         => server.error = NoError

\* C25: when a step of a server session raises, the connection is closed
\* and the error leaves the loop: the server takes no further step and no
\* further connection is made or accepted; the server waits for the next
\* connection only after a session that ended without error.
C25_FailedSessionStopsServer ==
    /\ [](server.error # NoError => (server.pc = "raised" /\ server.sock = "closed"))
    /\ [][ServerLoopStep]_vars

\* the server stopped in its first session though more sessions were allowed
C25_Witness ==
    /\ server.pc = "raised"
    /\ server.error = "BlockLength"
    /\ hist.session = 1
    /\ hist.session < MaxSessions
    /\ client.sock = "closed"

\* the server's connection socket is open only for the connection accepted
\* last, inside the loop body
OneConnectionOpen ==
    server.sock = "open"
      => /\ net.conn = "open"
         /\ server.pc \in ServerInSession

\* accept returns a connection only when the socket of the session before
\* is closed, and a connection is opened by accept alone
AcceptStep ==
    /\ (server.pc = "accept" /\ server'.pc # "accept")
         => /\ server.sock \in { "none", "closed" }
            /\ net.conn = "pending"
            /\ server'.sock = "open"
    /\ (server.sock # "open" /\ server'.sock = "open")
         => server.pc = "accept"

\* C26: the server has at most one accepted connection open, and it accepts
\* the next connection only after the socket of the session before has been
\* closed.
C26_OneSessionAtATime == []OneConnectionOpen /\ [][AcceptStep]_vars

\* a second connection accepted after the first session's socket was closed
C26_Witness ==
    /\ hist.session = 2
    /\ server.pc = "send_key"
    /\ server.sock = "open"
    /\ net.conn = "open"

\* ================================================================== src/rsa
\* RSA key transport: server.py start_server and client.py start_client, one
\* session over one connection.  RSA.generate(2048) is scaled to moduli of
\* two bytes and OAEP's single block to one two-byte block per key byte; EAX
\* without verify() is its counter-mode stream.

RsaMessage ==
    << 72, 101, 121, 32, 116, 104, 101, 114, 101, 33, 32, 84, 104, 105, 115, 32, 105, 115, 32, 83, 104, 114, 97, 118, 97, 115, 116, 105, 32, 58, 41 >>

\* generate_rsa_keys(): the key pairs RSA.generate may return
RsaKeys ==
    LET table == << [n |-> 3233, e |-> 17, d |-> 2753], [n |-> 2773, e |-> 17, d |-> 157],
                    [n |-> 3127, e |-> 3, d |-> 2011] >>
    IN  { table[((k - 1) % Len(table)) + 1] : k \in 1..MaxRsaKey }

\* key.publickey().export_key(): modulus and public exponent between markers
export_key(k) == << PemDash, k.n \div 256, k.n % 256, k.e, PemDash >>

\* RSA.import_key: ValueError unless the whole encoding is there
import_key(data) ==
    IF /\ Len(data) = PemLen
       /\ data[1] = PemDash
       /\ data[PemLen] = PemDash
       /\ data[2] * 256 + data[3] > 255
    THEN Returned([n |-> data[2] * 256 + data[3], e |-> data[4]])
    ELSE Raised("ValueError")

RECURSIVE PowMod(_, _, _)
PowMod(b, x, n) ==
    IF x = 0 THEN 1 % n
    ELSE IF x % 2 = 0 THEN PowMod((b * b) % n, x \div 2, n)
    ELSE (b * PowMod((b * b) % n, x \div 2, n)) % n

\* PKCS1_OAEP.new(rsa_public_key).encrypt(aes_key): two bytes per key byte
cipher_rsa_encrypt(pub, data) ==
    [i \in 1..(2 * Len(data)) |->
        LET c == PowMod(data[(i + 1) \div 2], pub.e, pub.n)
        IN  IF i % 2 = 1 THEN c \div 256 ELSE c % 256]

\* PKCS1_OAEP.new(rsa_private_key).decrypt: ValueError on a ciphertext whose
\* length is not that of an encrypted key, or whose padding does not check
cipher_rsa_decrypt(key, data) ==
    LET c(i) == data[2 * i - 1] * 256 + data[2 * i]
        m(i) == PowMod(c(i), key.d, key.n)
    IN  IF Len(data) # 2 * AesKeyLen THEN Raised("ValueError")
        ELSE IF \E i \in 1..AesKeyLen : c(i) >= key.n \/ m(i) > 255
        THEN Raised("ValueError")
        ELSE Returned([i \in 1..AesKeyLen |-> m(i)])

\* get_random_bytes(n), also the nonce drawn by AES.new(key, AES.MODE_EAX)
get_random_bytes(n) ==
    { [i \in 1..n |-> (s * 37 + i * 11 + n) % 256] : s \in 1..MaxRsaSeed }

\* a number that depends on every byte of data[lo..hi] and on its place
RECURSIVE MixRange(_, _, _)
MixRange(data, lo, hi) ==
    IF lo > hi THEN 0
    ELSE IF lo = hi THEN (data[lo] + 7) * (1 + (lo % 5))
    ELSE MixRange(data, lo, (lo + hi) \div 2) + MixRange(data, ((lo + hi) \div 2) + 1, hi)

\* AES.new(key, AES.MODE_EAX, nonce=nonce): ValueError on an empty nonce or a
\* key of a wrong length; encrypt and decrypt XOR the data with the key
\* stream of the key and the nonce
eax(key, nonce, data) ==
    IF Len(key) # AesKeyLen \/ nonce = << >> THEN Raised("ValueError")
    ELSE Returned([i \in 1..Len(data) |->
                     Xor(data[i], (MixRange(key, 1, Len(key))
                                     + 3 * MixRange(nonce, 1, Len(nonce))
                                     + 5 * Len(nonce) + 11 * i) % 256)])

\* socket.recv(bufsize): data of one of the sizes the buffered stream allows
\* (one whole write, everything buffered, a cut near the first write
\* boundary), b"" after an orderly close by the peer, ConnectionResetError
\* after a reset; otherwise the call blocks
RecvUpTo(stream, bufsize, rst, peerSock) ==
    IF stream # << >>
    THEN LET total == Len(Flatten(stream))
             first == Len(Head(stream))
         IN  { [raised |-> FALSE, data |-> SubSeq(Flatten(stream), 1, k),
                rest |-> DropBytes(stream, k), framed |-> k = first]
               : k \in { n \in 1..Min(total, bufsize) :
                           \/ n = Min(first, bufsize)
                           \/ n = Min(total, bufsize)
                           \/ Abs(n - first) <= MaxSplit } }
    ELSE IF rst
    THEN { [raised |-> TRUE, data |-> << >>, rest |-> << >>, framed |-> TRUE] }
    ELSE IF peerSock = "closed"
    THEN { [raised |-> FALSE, data |-> << >>, rest |-> << >>, framed |-> TRUE] }
    ELSE { }

\* an exception leaves the try block of a peer: finally closes its socket
Failed(peer, err) == [peer EXCEPT !.pc = "raised", !.sock = "closed", !.error = err]

\* start_server up to listen(), start_client before connect()
RsaInit ==
    /\ \E k \in RsaKeys :
          server = [pc |-> "accept", key |-> k, sock |-> "none",
                    encrypted_aes_key |-> None, aes_key |-> None, nonce |-> None,
                    encrypted_message |-> None, decrypted_message |-> None,
                    error |-> NoError]
    /\ client = [pc |-> "connect", sock |-> "none", public_key |-> None,
                 aes_key |-> None, encrypted_aes_key |-> None, nonce |-> None,
                 encrypted_message |-> None, error |-> NoError]
    /\ net = [conn |-> "none", c2s |-> << >>, s2c |-> << >>, rst |-> FALSE]
    /\ hist = [session |-> 0, framed |-> TRUE]
    /\ unit = UnitIdle

\* client_socket.connect((host, port))
RsaClientConnect ==
    /\ client.pc = "connect"
    /\ client' = [client EXCEPT !.pc = "recv_pub", !.sock = "open"]
    /\ net' = [net EXCEPT !.conn = "open"]
    /\ UNCHANGED << server, hist, unit >>

\* server_socket.accept(); client_socket.send(public_key): the client waits
\* in recv, so the send finds the connection open
RsaServerAccept ==
    /\ server.pc = "accept"
    /\ net.conn = "open"
    /\ server' = [server EXCEPT !.pc = "recv_key", !.sock = "open"]
    /\ net' = [net EXCEPT !.s2c = Append(net.s2c, export_key(server.key))]
    /\ hist' = [hist EXCEPT !.session = 1]
    /\ UNCHANGED << client, unit >>

\* public_key = recv(2048); aes_key = get_random_bytes(32); import_key;
\* encrypted_aes_key = cipher_rsa.encrypt(aes_key)
RsaClientRecvPub ==
    /\ client.pc = "recv_pub"
    /\ \E r \in RecvUpTo(net.s2c, PubKeyRecv, net.rst, server.sock) :
          IF r.raised
          THEN /\ client' = Failed(client, "ConnectionResetError")
               /\ net' = ClientCloses(net)
          ELSE LET pk == import_key(r.data)
                   left == [net EXCEPT !.s2c = r.rest]
               IN  IF pk.raised
                   THEN /\ client' = Failed([client EXCEPT !.public_key = r.data],
                                            pk.error)
                        /\ net' = ClientCloses(left)
                   ELSE /\ \E k \in get_random_bytes(AesKeyLen) :
                              client' = [client EXCEPT
                                           !.pc = "send_key",
                                           !.public_key = r.data,
                                           !.aes_key = k,
                                           !.encrypted_aes_key =
                                               cipher_rsa_encrypt(pk.value, k)]
                        /\ net' = left
    /\ UNCHANGED << server, hist, unit >>

\* client_socket.send(encrypted_aes_key); cipher_aes = AES.new(aes_key,
\* AES.MODE_EAX); nonce; encrypted_message = cipher_aes.encrypt(message)
RsaClientSendKey ==
    /\ client.pc = "send_key"
    /\ \E how \in SendOutcomes(net.rst, server.sock) :
          IF how = "error"
          THEN /\ client' = Failed(client, "BrokenPipeError")
               /\ net' = ClientCloses(net)
          ELSE /\ \E nonce \in get_random_bytes(NonceLen) :
                     client' = [client EXCEPT
                                  !.pc = "send_nonce",
                                  !.nonce = nonce,
                                  !.encrypted_message =
                                      eax(client.aes_key, nonce, RsaMessage).value]
               /\ net' = [net EXCEPT !.c2s = Sent(net.c2s, client.encrypted_aes_key, how)]
    /\ UNCHANGED << server, hist, unit >>

\* client_socket.send(nonce)
RsaClientSendNonce ==
    /\ client.pc = "send_nonce"
    /\ \E how \in SendOutcomes(net.rst, server.sock) :
          IF how = "error"
          THEN /\ client' = Failed(client, "BrokenPipeError")
               /\ net' = ClientCloses(net)
          ELSE /\ client' = [client EXCEPT !.pc = "send_msg"]
               /\ net' = [net EXCEPT !.c2s = Sent(net.c2s, client.nonce, how)]
    /\ UNCHANGED << server, hist, unit >>

\* client_socket.send(encrypted_message)
RsaClientSendMsg ==
    /\ client.pc = "send_msg"
    /\ \E how \in SendOutcomes(net.rst, server.sock) :
          IF how = "error"
          THEN /\ client' = Failed(client, "BrokenPipeError")
               /\ net' = ClientCloses(net)
          ELSE /\ client' = [client EXCEPT !.pc = "close"]
               /\ net' = [net EXCEPT !.c2s = Sent(net.c2s, client.encrypted_message, how)]
    /\ UNCHANGED << server, hist, unit >>

\* finally: client_socket.close()
RsaClientClose ==
    /\ client.pc = "close"
    /\ client' = [client EXCEPT !.pc = "done", !.sock = "closed"]
    /\ net' = ClientCloses(net)
    /\ UNCHANGED << server, hist, unit >>

\* encrypted_aes_key = recv(512); aes_key = cipher_rsa.decrypt(encrypted_aes_key)
RsaServerRecvKey ==
    /\ server.pc = "recv_key"
    /\ \E r \in RecvUpTo(net.c2s, RsaKeyRecv, net.rst, client.sock) :
          IF r.raised
          THEN /\ server' = Failed(server, "ConnectionResetError")
               /\ net' = ServerCloses(net)
               /\ hist' = hist
          ELSE LET k == cipher_rsa_decrypt(server.key, r.data)
                   got == [server EXCEPT !.encrypted_aes_key = r.data]
                   left == [net EXCEPT !.c2s = r.rest]
               IN  /\ hist' = [hist EXCEPT !.framed = hist.framed /\ r.framed]
                   /\ IF k.raised
                      THEN /\ server' = Failed(got, k.error)
                           /\ net' = ServerCloses(left)
                      ELSE /\ server' = [got EXCEPT !.pc = "recv_nonce",
                                                    !.aes_key = k.value]
                           /\ net' = left
    /\ UNCHANGED << client, unit >>

\* nonce = recv(16)
RsaServerRecvNonce ==
    /\ server.pc = "recv_nonce"
    /\ \E r \in RecvUpTo(net.c2s, NonceRecv, net.rst, client.sock) :
          IF r.raised
          THEN /\ server' = Failed(server, "ConnectionResetError")
               /\ net' = ServerCloses(net)
               /\ hist' = hist
          ELSE /\ server' = [server EXCEPT !.pc = "recv_msg", !.nonce = r.data]
               /\ net' = [net EXCEPT !.c2s = r.rest]
               /\ hist' = [hist EXCEPT !.framed = hist.framed /\ r.framed]
    /\ UNCHANGED << client, unit >>

\* encrypted_message = recv(1024); cipher_aes = AES.new(aes_key, AES.MODE_EAX,
\* nonce=nonce); decrypted_message = cipher_aes.decrypt(encrypted_message);
\* decrypted_message.decode()
RsaServerRecvMsg ==
    /\ server.pc = "recv_msg"
    /\ \E r \in RecvUpTo(net.c2s, MsgRecv, net.rst, client.sock) :
          IF r.raised
          THEN /\ server' = Failed(server, "ConnectionResetError")
               /\ net' = ServerCloses(net)
               /\ hist' = hist
          ELSE LET got == [server EXCEPT !.encrypted_message = r.data]
                   left == [net EXCEPT !.c2s = r.rest]
                   m == eax(server.aes_key, server.nonce, r.data)
               IN  /\ hist' = [hist EXCEPT !.framed = hist.framed /\ r.framed]
                   /\ IF m.raised
                      THEN /\ server' = Failed(got, m.error)
                           /\ net' = ServerCloses(left)
                      ELSE IF ~Utf8Decode(m.value).ok
                      THEN /\ server' = Failed([got EXCEPT !.decrypted_message = m.value],
                                               "UnicodeDecodeError")
                           /\ net' = ServerCloses(left)
                      ELSE /\ server' = [got EXCEPT !.pc = "close",
                                                    !.decrypted_message = m.value]
                           /\ net' = left
    /\ UNCHANGED << client, unit >>

\* finally: client_socket.close(); server_socket.close()
RsaServerClose ==
    /\ server.pc = "close"
    /\ server' = [server EXCEPT !.pc = "done", !.sock = "closed"]
    /\ net' = ServerCloses(net)
    /\ UNCHANGED << client, hist, unit >>

RsaNext ==
    \/ RsaClientConnect
    \/ RsaServerAccept
    \/ RsaClientRecvPub
    \/ RsaClientSendKey
    \/ RsaClientSendNonce
    \/ RsaClientSendMsg
    \/ RsaClientClose
    \/ RsaServerRecvKey
    \/ RsaServerRecvNonce
    \/ RsaServerRecvMsg
    \/ RsaServerClose

SpecRsa == RsaInit /\ [][RsaNext]_vars

\* C27: key transport delivers under any stream segmentation: whatever way
\* the stream splits or joins the client's three sends, the server's
\* recv(512), recv(16) and recv(1024) return exactly the client's encrypted
\* key, nonce and ciphertext, and the server recovers the client's AES key and
\* message and raises nothing.
C27_DeliversUnderSegmentation ==
    client.encrypted_aes_key # None
      => /\ server.encrypted_aes_key # None
              => /\ server.encrypted_aes_key = client.encrypted_aes_key
                 /\ server.aes_key = client.aes_key
         /\ server.nonce # None => server.nonce = client.nonce
         /\ server.encrypted_message # None
              => /\ server.encrypted_message = client.encrypted_message
                 /\ server.decrypted_message = RsaMessage
         /\ server.error = NoError

\* the sessions in which every read returned one whole send do deliver
C27_FramedDelivers ==
    (hist.framed /\ server.pc = "done")
      => /\ server.aes_key = client.aes_key
         /\ server.decrypted_message = RsaMessage

C27_FramedWitness ==
    /\ hist.framed
    /\ server.pc = "done"
    /\ client.pc = "done"
    /\ server.decrypted_message = RsaMessage

\* ==================================================== src/digital signature
\* Signed exchange: bob_server.py main and alice_client.py main.
\* dsa.generate_private_key(key_size=2048) is scaled to the subgroup of order
\* DsaQ generated by DsaG in GF(DsaP); a str is the sequence of its code
\* points, and a pickled value carries its type.

\* alice_message of alice_client.py
AliceMessage ==
    << 72, 101, 108, 108, 111, 32, 66, 111, 98, 44, 32, 116, 104, 105, 115,
       32, 105, 115, 32, 97, 32, 115, 101, 99, 117, 114, 101, 32, 109, 101,
       115, 115, 97, 103, 101, 32, 102, 114, 111, 109, 32, 65, 108, 105, 99,
       101, 33 >>

\* f"Hello Alice, I received your message: '{alice_message}'"
BobMessage(alice_message) ==
    << 72, 101, 108, 108, 111, 32, 65, 108, 105, 99, 101, 44, 32, 73, 32,
       114, 101, 99, 101, 105, 118, 101, 100, 32, 121, 111, 117, 114, 32,
       109, 101, 115, 115, 97, 103, 101, 58, 32, 39 >>
      \o alice_message \o << 39 >>

\* message.encode('utf-8'): a str of ASCII characters is its own encoding
StrEncode(str) ==
    IF \A i \in 1..Len(str) : str[i] < 128 THEN [ok |-> TRUE, bytes |-> str]
    ELSE Utf8Encode(str)

\* generate_keys(): private_key, public_key = private_key.public_key() with
\* y = g^x mod p, public_bytes = public_key.public_bytes(PEM, ...)
generate_keys(x) ==
    LET y == PowMod(DsaG, x, DsaP)
    IN  [private_key |-> x,
         public_key |-> [alg |-> PemTagDSA, y |-> y, g |-> DsaG],
         public_bytes |-> << PemDash, PemTagDSA, PemBase + y, PemBase + DsaG, PemDash >>]

\* load_pem_public_key as the two programs import it: a key of any algorithm
\* loads; a DSA key needs y and g in 1..p-1
SigLoadPem(data) ==
    IF Len(data) >= PemLen /\ data[2] = PemTagDSA
    THEN IF /\ data[1] = PemDash
            /\ data[PemLen] = PemDash
            /\ data[3] - PemBase \in 1..(DsaP - 1)
            /\ data[4] - PemBase \in 1..(DsaP - 1)
         THEN Returned([alg |-> PemTagDSA, y |-> data[3] - PemBase,
                        g |-> data[4] - PemBase])
         ELSE Raised("ValueError")
    ELSE LET k == load_pem_public_key(data)
         IN  IF k.ok THEN Returned([alg |-> k.alg, y |-> 0, g |-> 0])
             ELSE Raised("ValueError")

\* hashes.SHA256() as DSA uses it: a number below q that depends on every
\* byte of the data and on its place
DsaHash(data) == (MixRange(data, 1, Len(data)) + Len(data)) % DsaQ

\* private_key.sign(data, hashes.SHA256()) with the per-signature secret k:
\* a k that gives r = 0 or s = 0 is drawn again; the signature is the DER
\* sequence of r and s
RECURSIVE DsaSign(_, _, _)
DsaSign(x, data, k) ==
    LET r == PowMod(DsaG, k, DsaP) % DsaQ
        kinv == CHOOSE w \in 1..(DsaQ - 1) : (k * w) % DsaQ = 1
        s == (kinv * (DsaHash(data) + x * r)) % DsaQ
    IN  IF r = 0 \/ s = 0 THEN DsaSign(x, data, (k % (DsaQ - 1)) + 1)
        ELSE << 48, r, s >>

\* sign_message(message, private_key)
sign_message(message, private_key, k) ==
    LET e == StrEncode(message.v)
    IN  IF message.t # "str" THEN Raised("AttributeError")
        ELSE IF ~e.ok THEN Raised("UnicodeEncodeError")
        ELSE Returned([t |-> "bytes", v |-> DsaSign(private_key, e.bytes, k)])

\* public_key.verify(signature, data, hashes.SHA256()): returns None, or
\* raises TypeError for a key of another algorithm or a signature that is not
\* bytes, InvalidSignature otherwise
public_key_verify(public_key, signature, data) ==
    IF public_key.alg # PemTagDSA \/ signature.t # "bytes" THEN Raised("TypeError")
    ELSE LET sig == signature.v
         IN  IF Len(sig) # 3 THEN Raised("InvalidSignature")
             ELSE IF sig[1] # 48 \/ sig[2] \notin 1..(DsaQ - 1) \/ sig[3] \notin 1..(DsaQ - 1)
             THEN Raised("InvalidSignature")
             ELSE LET w == CHOOSE i \in 1..(DsaQ - 1) : (sig[3] * i) % DsaQ = 1
                      u1 == (DsaHash(data) * w) % DsaQ
                      u2 == (sig[2] * w) % DsaQ
                      v == ((PowMod(public_key.g, u1, DsaP)
                              * PowMod(public_key.y, u2, DsaP)) % DsaP) % DsaQ
                  IN  IF v = sig[2] THEN Returned(None) ELSE Raised("InvalidSignature")

\* verify_signature that answers True whenever the message could be encoded
verify_signature_TrustsEncoding(message, signature, public_key) ==
    message.t = "str" /\ StrEncode(message.v).ok

\* verify_signature(message, signature, public_key): every Exception of
\* message.encode and of verify is caught
verify_signature(message, signature, public_key) ==
    IF message.t # "str" THEN FALSE
    ELSE IF ~StrEncode(message.v).ok THEN FALSE
    ELSE ~public_key_verify(public_key, signature, StrEncode(message.v).bytes).raised

\* pickle.dumps({'message': ..., 'signature': ...}): PROTO, EMPTY_DICT, the
\* two values (BINUNICODE or SHORT_BINBYTES, length, content), STOP
pickle_dumps(d) ==
    LET value(val) == << (IF val.t = "str" THEN 88 ELSE 67), Len(val.v) >> \o val.v
    IN  << 128, 125 >> \o value(d.message) \o value(d.signature) \o << 46 >>

\* one value read at position pos
UnpickleValue(data, pos) ==
    IF pos + 1 > Len(data) \/ data[pos] \notin {88, 67} THEN [ok |-> FALSE]
    ELSE IF pos + 1 + data[pos + 1] > Len(data) THEN [ok |-> FALSE]
    ELSE [ok |-> TRUE,
          val |-> [t |-> IF data[pos] = 88 THEN "str" ELSE "bytes",
                   v |-> SubSeq(data, pos + 2, pos + 1 + data[pos + 1])],
          next |-> pos + 2 + data[pos + 1]]

\* pickle.loads(data): EOFError on b"", UnpicklingError on a stream that is
\* cut or malformed; bytes after STOP are ignored
pickle_loads(data) ==
    IF data = << >> THEN Raised("EOFError")
    ELSE IF Len(data) < 2 THEN Raised("UnpicklingError")
    ELSE IF data[1] # 128 \/ data[2] # 125 THEN Raised("UnpicklingError")
    ELSE LET m == UnpickleValue(data, 3)
         IN  IF ~m.ok THEN Raised("UnpicklingError")
             ELSE LET s == UnpickleValue(data, m.next)
                  IN  IF ~s.ok THEN Raised("UnpicklingError")
                      ELSE IF s.next > Len(data) THEN Raised("UnpicklingError")
                      ELSE IF data[s.next] # 46 THEN Raised("UnpicklingError")
                      ELSE Returned([message |-> m.val, signature |-> s.val])

\* bob_server.py main up to listen()
SigInit ==
    /\ \E x \in 1..MaxDsaKey :
          server = [pc |-> "accept", keys |-> generate_keys(x), sock |-> "none",
                    alice_public_key |-> None, data |-> None,
                    alice_message |-> None, alice_signature |-> None,
                    verified |-> { }, error |-> NoError]
    /\ client = [pc |-> "off", keys |-> None, sock |-> "none",
                 bob_public_key |-> None, bob_message |-> None,
                 verified |-> { }, error |-> NoError]
    /\ net = [conn |-> "none", c2s |-> << >>, s2c |-> << >>, rst |-> FALSE]
    /\ hist = [session |-> 0, faults |-> 0, responded |-> FALSE,
               keyBytes |-> None, verdict |-> { }]
    /\ unit = UnitIdle

\* alice_client.py main: generate_keys(), connect
AliceConnect ==
    /\ client.pc \in {"off", "done", "raised"}
    /\ server.pc = "accept"
    /\ net.conn # "pending"
    /\ hist.session < MaxSessions
    /\ \E x \in 1..MaxDsaKey :
          client' = [pc |-> "recv_key", keys |-> generate_keys(x), sock |-> "open",
                     bob_public_key |-> None, bob_message |-> None,
                     verified |-> { }, error |-> NoError]
    /\ net' = [conn |-> "pending", c2s |-> << >>, s2c |-> << >>, rst |-> FALSE]
    /\ hist' = [hist EXCEPT !.session = @ + 1, !.responded = FALSE,
                            !.keyBytes = None, !.verdict = { }]
    /\ UNCHANGED << server, unit >>

\* client_socket, client_address = server_socket.accept();
\* client_socket.send(bob_public_bytes)
BobAccept ==
    /\ server.pc = "accept"
    /\ net.conn = "pending"
    /\ \E how \in SendOutcomes(net.rst, client.sock) :
          IF how = "error"
          THEN /\ server' = Failed([server EXCEPT !.sock = "open"], "BrokenPipeError")
               /\ net' = ServerCloses([net EXCEPT !.conn = "open"])
          ELSE /\ server' = [server EXCEPT !.pc = "recv_key", !.sock = "open"]
               /\ net' = [net EXCEPT !.conn = "open",
                                     !.s2c = Sent(net.s2c, server.keys.public_bytes, how)]
    /\ UNCHANGED << client, hist, unit >>

\* alice_public_bytes = recv(4096); alice_public_key = load_pem_public_key(...)
BobRecvKey ==
    /\ server.pc = "recv_key"
    /\ \E r \in RecvUpTo(net.c2s, RecvMax, net.rst, client.sock) :
          IF r.raised
          THEN /\ server' = Failed(server, "ConnectionResetError")
               /\ net' = ServerCloses(net)
               /\ hist' = hist
          ELSE LET k == SigLoadPem(r.data)
                   left == [net EXCEPT !.c2s = r.rest]
               IN  /\ hist' = [hist EXCEPT !.keyBytes = r.data]
                   /\ IF k.raised
                      THEN /\ server' = Failed(server, k.error)
                           /\ net' = ServerCloses(left)
                      ELSE /\ server' = [server EXCEPT !.pc = "recv_data",
                                                       !.alice_public_key = k.value]
                           /\ net' = left
    /\ UNCHANGED << client, unit >>

\* data = recv(4096); if not data: break
BobRecvData ==
    /\ server.pc = "recv_data"
    /\ \E r \in RecvUpTo(net.c2s, RecvMax, net.rst, client.sock) :
          IF r.raised
          THEN /\ server' = Failed(server, "ConnectionResetError")
               /\ net' = ServerCloses(net)
          ELSE IF r.data = << >>
          THEN /\ server' = [server EXCEPT !.pc = "stopped", !.sock = "closed",
                                           !.data = r.data]
               /\ net' = ServerCloses(net)
          ELSE /\ server' = [server EXCEPT !.pc = "verify", !.data = r.data]
               /\ net' = [net EXCEPT !.c2s = r.rest]
    /\ UNCHANGED << client, hist, unit >>

\* received_data = pickle.loads(data); alice_message, alice_signature;
\* if verify_signature(alice_message, alice_signature, alice_public_key)
BobVerify ==
    /\ server.pc = "verify"
    /\ LET d == pickle_loads(server.data)
       IN  IF d.raised
           THEN /\ server' = Failed(server, d.error)
                /\ net' = ServerCloses(net)
                /\ hist' = hist
           ELSE LET ok == verify_signature(d.value.message, d.value.signature,
                                           server.alice_public_key)
                IN  /\ server' = [server EXCEPT
                                    !.pc = IF ok THEN "respond" ELSE "close",
                                    !.alice_message = d.value.message,
                                    !.alice_signature = d.value.signature,
                                    !.verified = { ok }]
                    /\ hist' = [hist EXCEPT !.verdict = { ok }]
                    /\ net' = net
    /\ UNCHANGED << client, unit >>

\* bob_message; bob_signature = sign_message(...); send(pickle.dumps(...))
BobRespond ==
    /\ server.pc = "respond"
    /\ \E k \in 1..MaxDsaNonce : \E how \in SendOutcomes(net.rst, client.sock) :
          LET bob_message == [t |-> "str", v |-> BobMessage(server.alice_message.v)]
              sig == sign_message(bob_message, server.keys.private_key, k)
          IN  IF sig.raised
              THEN /\ server' = Failed(server, sig.error)
                   /\ net' = ServerCloses(net)
                   /\ hist' = hist
              ELSE IF how = "error"
              THEN /\ server' = Failed(server, "BrokenPipeError")
                   /\ net' = ServerCloses(net)
                   /\ hist' = hist
              ELSE /\ server' = [server EXCEPT !.pc = "close"]
                   /\ net' = [net EXCEPT !.s2c = Sent(net.s2c,
                                 pickle_dumps([message |-> bob_message,
                                               signature |-> sig.value]), how)]
                   /\ hist' = [hist EXCEPT !.responded = TRUE]
    /\ UNCHANGED << client, unit >>

\* finally: client_socket.close(); back to accept()
BobClose ==
    /\ server.pc = "close"
    /\ server' = [server EXCEPT !.pc = "accept", !.sock = "closed"]
    /\ net' = ServerCloses(net)
    /\ UNCHANGED << client, hist, unit >>

\* bob_public_bytes = recv(4096); bob_public_key = load_pem_public_key(...);
\* client_socket.send(alice_public_bytes)
AliceRecvKey ==
    /\ client.pc = "recv_key"
    /\ \E r \in RecvUpTo(net.s2c, RecvMax, net.rst, server.sock) :
          IF r.raised
          THEN /\ client' = Failed(client, "ConnectionResetError")
               /\ net' = ClientCloses(net)
          ELSE LET k == SigLoadPem(r.data)
                   left == [net EXCEPT !.s2c = r.rest]
               IN  IF k.raised
                   THEN /\ client' = Failed(client, k.error)
                        /\ net' = ClientCloses(left)
                   ELSE \E how \in SendOutcomes(left.rst, server.sock) :
                          IF how = "error"
                          THEN /\ client' = Failed([client EXCEPT
                                                      !.bob_public_key = k.value],
                                                   "BrokenPipeError")
                               /\ net' = ClientCloses(left)
                          ELSE /\ client' = [client EXCEPT !.pc = "send_msg",
                                                           !.bob_public_key = k.value]
                               /\ net' = [left EXCEPT !.c2s = Sent(left.c2s,
                                             client.keys.public_bytes, how)]
    /\ UNCHANGED << server, hist, unit >>

\* alice_signature = sign_message(alice_message, alice_private_key);
\* client_socket.send(pickle.dumps(message_data))
AliceSendMsg ==
    /\ client.pc = "send_msg"
    /\ \E k \in 1..MaxDsaNonce : \E how \in SendOutcomes(net.rst, server.sock) :
          LET sig == sign_message([t |-> "str", v |-> AliceMessage], client.keys.private_key, k)
          IN  IF how = "error"
              THEN /\ client' = Failed(client, "BrokenPipeError")
                   /\ net' = ClientCloses(net)
              ELSE /\ client' = [client EXCEPT !.pc = "recv_resp"]
                   /\ net' = [net EXCEPT !.c2s = Sent(net.c2s,
                                 pickle_dumps([message |-> [t |-> "str", v |-> AliceMessage],
                                               signature |-> sig.value]), how)]
    /\ UNCHANGED << server, hist, unit >>

\* data = recv(4096); pickle.loads(data); verify_signature(bob_message,
\* bob_signature, bob_public_key)
AliceRecvResp ==
    /\ client.pc = "recv_resp"
    /\ \E r \in RecvUpTo(net.s2c, RecvMax, net.rst, server.sock) :
          IF r.raised
          THEN /\ client' = Failed(client, "ConnectionResetError")
               /\ net' = ClientCloses(net)
          ELSE LET d == pickle_loads(r.data)
                   left == [net EXCEPT !.s2c = r.rest]
               IN  IF d.raised
                   THEN /\ client' = Failed(client, d.error)
                        /\ net' = ClientCloses(left)
                   ELSE /\ client' = [client EXCEPT
                                        !.pc = "close",
                                        !.bob_message = d.value.message,
                                        !.verified =
                                            { verify_signature(
                                                d.value.message, d.value.signature,
                                                client.bob_public_key) }]
                        /\ net' = left
    /\ UNCHANGED << server, hist, unit >>

\* finally: client_socket.close()
AliceClose ==
    /\ client.pc = "close"
    /\ client' = [client EXCEPT !.pc = "done", !.sock = "closed"]
    /\ net' = ClientCloses(net)
    /\ UNCHANGED << server, hist, unit >>

\* an active network puts in place of what Alice sent: a key with another y
\* or of another algorithm ('R'); a message of another type, with another
\* first character or with a lone surrogate; another signature; a stream cut
\* short
SigTamper ==
    /\ hist.faults < MaxFaults
    /\ net.c2s # << >>
    /\ LET chunk == Head(net.c2s)
           alterations ==
               IF chunk[1] = PemDash /\ Len(chunk) = PemLen
               THEN { [chunk EXCEPT ![3] = Xor(@, 1)], [chunk EXCEPT ![2] = PemBase + 17] }
               ELSE IF chunk[1] = 128 /\ ~pickle_loads(chunk).raised
               THEN { [chunk EXCEPT ![3] = 67], [chunk EXCEPT ![5] = Xor(@, 1)],
                      [chunk EXCEPT ![5] = 55296],
                      [chunk EXCEPT ![Len(chunk) - 1] = Xor(@, 1)],
                      SubSeq(chunk, 1, Len(chunk) - 1) }
               ELSE { }
       IN  \E alt \in alterations :
              net' = [net EXCEPT !.c2s = << alt >> \o Tail(@)]
    /\ hist' = [hist EXCEPT !.faults = @ + 1]
    /\ UNCHANGED << server, client, unit >>

SigNext ==
    \/ AliceConnect
    \/ BobAccept
    \/ BobRecvKey
    \/ BobRecvData
    \/ BobVerify
    \/ BobRespond
    \/ BobClose
    \/ AliceRecvKey
    \/ AliceSendMsg
    \/ AliceRecvResp
    \/ AliceClose
    \/ SigTamper

SpecSign == SigInit /\ [][SigNext]_vars

\* verification as DSA defines it: a DSA key, a str message that encodes,
\* a byte-string signature (r, s) in range, and g^u1 * y^u2 mod p mod q = r
SignatureValid(public_key, message, signature) ==
    /\ public_key.alg = PemTagDSA
    /\ message.t = "str"
    /\ StrEncode(message.v).ok
    /\ signature.t = "bytes"
    /\ Len(signature.v) = 3
    /\ signature.v[1] = 48
    /\ signature.v[2] \in 1..(DsaQ - 1)
    /\ signature.v[3] \in 1..(DsaQ - 1)
    /\ \E w \in 1..(DsaQ - 1) :
          /\ (w * signature.v[3]) % DsaQ = 1
          /\ ((PowMod(public_key.g, (DsaHash(StrEncode(message.v).bytes) * w) % DsaQ, DsaP)
                * PowMod(public_key.y, (signature.v[2] * w) % DsaQ, DsaP)) % DsaP) % DsaQ
               = signature.v[2]

\* a response of Bob is in flight or was read in this session
ResponseOnWire == \E i \in 1..Len(net.s2c) : net.s2c[i][1] = 128

\* C28: signed exchange gating: in every session Bob signs and sends a
\* response only if Alice's signature verified against the public key
\* received in that same session; verify_signature answers True exactly when
\* verification succeeds and False otherwise, raising nothing; when
\* verification fails no response is sent and the connection is closed.
C28_SignedExchangeGating ==
    /\ (hist.responded \/ ResponseOnWire)
         => /\ hist.keyBytes # None
            /\ server.alice_public_key = SigLoadPem(hist.keyBytes).value
            /\ hist.verdict = { TRUE }
            /\ SignatureValid(server.alice_public_key, server.alice_message,
                              server.alice_signature)
    /\ hist.verdict # { }
         => hist.verdict = { SignatureValid(server.alice_public_key,
                                            server.alice_message,
                                            server.alice_signature) }
    /\ hist.verdict = { FALSE }
         => /\ ~hist.responded
            /\ ~ResponseOnWire
            /\ server.pc \in {"close", "accept"}
            /\ server.pc = "accept" => server.sock = "closed"

\* a second session in which the signature did not verify: Bob is back at
\* accept with the connection closed, and Alice read end of stream in place
\* of a response
C28_Witness ==
    /\ hist.session = 2
    /\ hist.verdict = { FALSE }
    /\ server.pc = "accept"
    /\ server.sock = "closed"
    /\ client.pc = "raised"
    /\ client.error = "EOFError"

\* ===================================================== the cipher functions
\* column_transposition.py and the custom cipher, each applied to inputs drawn
\* from small sets.  A str is the sequence of its code points.

\* the strings of length 0..n over an alphabet
RECURSIVE StringsUpTo(_, _)
StringsUpTo(alphabet, n) ==
    IF n = 0 THEN { << >> }
    ELSE LET shorter == StringsUpTo(alphabet, n - 1)
         IN  shorter \cup { Append(s, c) : s \in shorter, c \in alphabet }

\* ------------------------------------------------ src/column_transposition.py
\* a grid cell holds '' (<< >>) or one character

\* plaintext.replace(" ", "")
RemoveSpaces(text) == SelectSeq(text, LAMBDA c : c # 32)

\* key_order = sorted(list(key)); col_order = {char: i for i, char in
\* enumerate(key)}, the last index of char; sorted_indices =
\* [col_order[char] for char in key_order]
sorted_indices(key) ==
    LET key_order == SortSeq(key, LAMBDA a, b : a < b)
        col_order(char) ==
            CHOOSE i \in 0..(Len(key) - 1) :
                /\ key[i + 1] = char
                /\ \A j \in (i + 1)..(Len(key) - 1) : key[j + 1] # char
    IN  [i \in 1..Len(key) |-> col_order(key_order[i])]

\* columnar_transposition_encrypt(plaintext, key): num_rows =
\* -(-len(plaintext) // num_cols); the grid filled row by row; the columns
\* joined in the order of sorted_indices
columnar_transposition_encrypt(plaintext, key) ==
    IF Len(key) = 0 THEN Raised("ZeroDivisionError")
    ELSE LET text == RemoveSpaces(plaintext)
             num_cols == Len(key)
             num_rows == (Len(text) + num_cols - 1) \div num_cols
             grid == [i \in 1..num_rows |->
                        [j \in 1..num_cols |->
                            IF (i - 1) * num_cols + (j - 1) < Len(text)
                            THEN << text[(i - 1) * num_cols + j] >>
                            ELSE << >>]]
             column(col) == Flatten([row \in 1..num_rows |-> grid[row][col + 1]])
         IN  Returned(Flatten([k \in 1..num_cols |-> column(sorted_indices(key)[k])]))

\* the loop of decrypt from its step t on: step t visits row t % num_rows of
\* column sorted_indices[t // num_rows], and index = t while characters remain
RECURSIVE DecryptFill(_, _, _, _)
DecryptFill(grid, ciphertext, order, t) ==
    IF t >= Len(grid) * Len(order) \/ t >= Len(ciphertext) THEN grid
    ELSE DecryptFill(
           [grid EXCEPT ![(t % Len(grid)) + 1][order[(t \div Len(grid)) + 1] + 1] =
                            << ciphertext[t + 1] >>],
           ciphertext, order, t + 1)

\* str.strip(): the characters of str.isspace() removed at both ends
RECURSIVE Strip(_)
Strip(text) ==
    LET isspace(c) == c \in {9, 10, 11, 12, 13, 28, 29, 30, 31, 32, 133, 160}
    IN  IF text = << >> THEN text
        ELSE IF isspace(Head(text)) THEN Strip(Tail(text))
        ELSE IF isspace(text[Len(text)]) THEN Strip(SubSeq(text, 1, Len(text) - 1))
        ELSE text

\* columnar_transposition_decrypt(ciphertext, key)
columnar_transposition_decrypt(ciphertext, key) ==
    IF Len(key) = 0 THEN Raised("ZeroDivisionError")
    ELSE LET num_cols == Len(key)
             num_rows == (Len(ciphertext) + num_cols - 1) \div num_cols
             grid == DecryptFill([i \in 1..num_rows |-> [j \in 1..num_cols |-> << >>]],
                                 ciphertext, sorted_indices(key), 0)
         IN  Returned(Strip(Flatten([i \in 1..num_rows |-> Flatten(grid[i])])))

\* ciphertext = columnar_transposition_encrypt(plaintext, key)
ColumnEncrypt ==
    /\ unit.kind = "column"
    /\ unit.op = "start"
    /\ LET c == columnar_transposition_encrypt(unit.plaintext, unit.key)
       IN  unit' = IF c.raised
                   THEN [unit EXCEPT !.op = "raised", !.error = c.error]
                   ELSE [unit EXCEPT !.op = "encrypted", !.ciphertext = c.value]
    /\ UNCHANGED << server, client, net, hist >>

\* decrypted_text = columnar_transposition_decrypt(ciphertext, key)
ColumnDecrypt ==
    /\ unit.kind = "column"
    /\ unit.op = "encrypted"
    /\ LET d == columnar_transposition_decrypt(unit.ciphertext, unit.key)
       IN  unit' = IF d.raised
                   THEN [unit EXCEPT !.op = "raised", !.error = d.error]
                   ELSE [unit EXCEPT !.op = "decrypted", !.decrypted = d.value]
    /\ UNCHANGED << server, client, net, hist >>

\* ------------------------------------------------------- src/custom cipher
\* The three-layer cipher of custom_cipher.py (decrypt is the same code in
\* custom_decipher.py): substitution by key1, reversal of blocks of key2
\* characters, padding every pad_interval characters.

\* string.ascii_lowercase
ascii_lowercase == [i \in 1..26 |-> 96 + i]

\* str.lower(): the ASCII capitals, and U+0130, whose lower case is two
\* characters; the characters of the messages have no other case
lower(text) ==
    Flatten([i \in 1..Len(text) |->
               IF text[i] >= 65 /\ text[i] <= 90 THEN << text[i] + 32 >>
               ELSE IF text[i] = 304 THEN << 105, 775 >>
               ELSE << text[i] >>])

\* create_substitution_tables(key1): ValueError unless key1 has every letter;
\* str.maketrans raises ValueError unless the two strings are equally long
create_substitution_tables(key1) ==
    LET k == lower(key1)
        letters == { ascii_lowercase[i] : i \in 1..26 }
        keyed == { k[i] : i \in 1..Len(k) }
    IN  IF ~(letters \subseteq keyed) THEN Raised("ValueError")
        ELSE IF Len(k) # Len(ascii_lowercase) THEN Raised("ValueError")
        ELSE Returned([encrypt_table |-> [c \in letters |-> k[c - 96]],
                       decrypt_table |->
                           [c \in keyed |->
                               ascii_lowercase[CHOOSE i \in 1..26 : k[i] = c]]])

\* substitute(text, table): text.lower().translate(table)
substitute(text, table) ==
    LET t == lower(text)
    IN  [i \in 1..Len(t) |-> IF t[i] \in DOMAIN table THEN table[t[i]] ELSE t[i]]

\* transpose(text, block_size): every block of block_size characters
\* reversed (block[::-1])
RECURSIVE transpose(_, _)
transpose(text, block_size) ==
    LET reversed(block) == [i \in 1..Len(block) |-> block[Len(block) + 1 - i]]
    IN  IF text = << >> THEN << >>
        ELSE IF Len(text) <= block_size THEN reversed(text)
        ELSE reversed(SubSeq(text, 1, block_size))
               \o transpose(SubSeq(text, block_size + 1, Len(text)), block_size)

\* len(range(start, stop, step))
RangeLen(start, stop, step) ==
    IF stop <= start THEN 0 ELSE ((stop - start - 1) \div step) + 1

\* the loop of add_padding from its k-th round on; pads holds the characters
\* random.choice returns; list.insert at an index past the end appends
RECURSIVE PadLoop(_, _, _, _, _)
PadLoop(result, positions, interval, pads, k) ==
    LET i == interval + (k - 1) * (interval + 1)
        at == Min(i, Len(result))
    IN  IF k > Len(pads) THEN [text |-> result, pad_positions |-> positions]
        ELSE PadLoop(SubSeq(result, 1, at) \o << pads[k] >>
                       \o SubSeq(result, at + 1, Len(result)),
                     Append(positions, i), interval, pads, k + 1)

\* add_padding whose range stops at the length of the text
add_padding_StopsAtLength(text, interval, pads) ==
    PadLoop(text, << >>, interval,
            SubSeq(pads, 1, RangeLen(interval, Len(text), interval + 1)), 1)

\* add_padding(text, interval): one round for each element of
\* range(interval, len(text) + len(text) // interval, interval + 1), which is
\* fixed before the first insertion
add_padding(text, interval, pads) ==
    PadLoop(text, << >>, interval,
            SubSeq(pads, 1, RangeLen(interval, Len(text) + (Len(text) \div interval),
                                     interval + 1)), 1)

\* remove_padding(text, pad_positions): del result[pos] for pos in
\* sorted(pad_positions, reverse=True), IndexError past the end
RECURSIVE remove_padding(_, _)
remove_padding(text, pad_positions) ==
    LET positions == SortSeq(pad_positions, LAMBDA a, b : a > b)
    IN  IF positions = << >> THEN Returned(text)
        ELSE IF Head(positions) >= Len(text) THEN Raised("IndexError")
        ELSE remove_padding(SubSeq(text, 1, Head(positions))
                              \o SubSeq(text, Head(positions) + 2, Len(text)),
                            Tail(positions))

\* encrypt(plaintext, key1, key2, pad_interval)
custom_encrypt(plaintext, key1, key2, pad_interval, pads) ==
    LET tables == create_substitution_tables(key1)
    IN  IF tables.raised THEN tables
        ELSE Returned(add_padding(
                        transpose(substitute(plaintext, tables.value.encrypt_table), key2),
                        pad_interval, pads))

\* decrypt(ciphertext, key1, key2, pad_positions)
custom_decrypt(ciphertext, key1, key2, pad_positions) ==
    LET tables == create_substitution_tables(key1)
        text == remove_padding(ciphertext, pad_positions)
    IN  IF tables.raised THEN tables
        ELSE IF text.raised THEN text
        ELSE Returned(substitute(transpose(text.value, key2),
                                 tables.value.decrypt_table))

\* encrypted, pad_positions = encrypt(message, key1, key2, pad_interval);
\* random.choice(string.ascii_lowercase) returns 'a' or 'z' in each round of
\* the loop of add_padding
CustomEncrypt ==
    /\ unit.kind = "custom"
    /\ unit.op = "start"
    /\ \E draws \in LET n == Len(lower(unit.message))
                     IN  [1..RangeLen(unit.pad_interval,
                                      n + (n \div unit.pad_interval),
                                      unit.pad_interval + 1) -> {97, 122}] :
          LET r == custom_encrypt(unit.message, unit.key1, unit.key2,
                                  unit.pad_interval, draws)
          IN  IF r.raised
              THEN unit' = [unit EXCEPT !.op = "raised", !.error = r.error]
              ELSE unit' = [unit EXCEPT
                              !.op = "encrypted",
                              !.pads = SubSeq(draws, 1, Len(r.value.pad_positions)),
                              !.encrypted = r.value.text,
                              !.pad_positions = r.value.pad_positions]
    /\ UNCHANGED << server, client, net, hist >>

\* decrypted = decrypt(encrypted, key1, key2, pad_positions)
CustomDecrypt ==
    /\ unit.kind = "custom"
    /\ unit.op = "encrypted"
    /\ LET d == custom_decrypt(unit.encrypted, unit.key1, unit.key2, unit.pad_positions)
       IN  unit' = IF d.raised
                   THEN [unit EXCEPT !.op = "raised", !.error = d.error]
                   ELSE [unit EXCEPT !.op = "decrypted", !.decrypted = d.value]
    /\ UNCHANGED << server, client, net, hist >>

\* ------------------------------------------------------ src/affine_cipher.py

\* char.isalpha() and base = ord('A') if char.isupper() else ord('a'): the
\* base of a letter, 0 for a character that is no letter.  The letters are
\* those of ASCII and, outside ASCII, the lower-case U+00E9 and U+00DF
LetterBase(char) ==
    IF char \in 65..90 THEN 65
    ELSE IF char \in 97..122 \/ char \in {223, 233} THEN 97
    ELSE 0

\* mod_inverse(a, m): the first x of range(1, m) with (a * x) % m == 1,
\* ValueError when the loop ends
mod_inverse(a, m) ==
    IF \E x \in 1..(m - 1) : (a * x) % m = 1
    THEN Returned(CHOOSE x \in 1..(m - 1) :
                    /\ (a * x) % m = 1
                    /\ \A y \in 1..(x - 1) : (a * y) % m # 1)
    ELSE Raised("ValueError")

\* affine_encrypt(plaintext, a, b)
affine_encrypt(plaintext, a, b) ==
    [i \in 1..Len(plaintext) |->
        LET char == plaintext[i]
            base == LetterBase(char)
        IN  IF base # 0 THEN ((a * (char - base) + b) % 26) + base ELSE char]

\* affine_decrypt that takes b off after the multiplication
affine_decrypt_OffsetLast(ciphertext, a, b) ==
    LET a_inv == mod_inverse(a, 26)
    IN  IF a_inv.raised THEN a_inv
        ELSE Returned([i \in 1..Len(ciphertext) |->
                         LET char == ciphertext[i]
                             base == LetterBase(char)
                         IN  IF base # 0
                             THEN ((a_inv.value * (char - base) - b) % 26) + base
                             ELSE char])

\* affine_decrypt(ciphertext, a, b): a_inv = mod_inverse(a, 26) before the loop
affine_decrypt(ciphertext, a, b) ==
    LET a_inv == mod_inverse(a, 26)
    IN  IF a_inv.raised THEN a_inv
        ELSE Returned([i \in 1..Len(ciphertext) |->
                         LET char == ciphertext[i]
                             base == LetterBase(char)
                         IN  IF base # 0
                             THEN ((a_inv.value * (char - base - b)) % 26) + base
                             ELSE char])

\* x = mod_inverse(a, m)
ModInverse ==
    /\ unit.kind = "inverse"
    /\ unit.op = "start"
    /\ LET r == mod_inverse(unit.a, unit.m)
       IN  unit' = IF r.raised
                   THEN [unit EXCEPT !.op = "raised", !.error = r.error]
                   ELSE [unit EXCEPT !.op = "returned", !.x = r.value]
    /\ UNCHANGED << server, client, net, hist >>

\* ciphertext = affine_encrypt(plaintext, a, b)
AffineEncrypt ==
    /\ unit.kind = "affine"
    /\ unit.op = "start"
    /\ unit' = [unit EXCEPT !.op = "encrypted",
                            !.ciphertext = affine_encrypt(unit.plaintext, unit.a, unit.b)]
    /\ UNCHANGED << server, client, net, hist >>

\* decrypted = affine_decrypt(ciphertext, a, b)
AffineDecrypt ==
    /\ unit.kind = "affine"
    /\ unit.op = "encrypted"
    /\ LET d == affine_decrypt(unit.ciphertext, unit.a, unit.b)
       IN  unit' = IF d.raised
                   THEN [unit EXCEPT !.op = "raised", !.error = d.error]
                   ELSE [unit EXCEPT !.op = "decrypted", !.decrypted = d.value]
    /\ UNCHANGED << server, client, net, hist >>

\* ----------------------------------------------------- src/vignere_cipher.py

\* generate_key(plaintext, key): the key itself when the lengths are equal,
\* else key * (len(plaintext) // len(key)) + key[:len(plaintext) % len(key)],
\* which divides by zero for an empty key
generate_key(plaintext, key) ==
    IF Len(plaintext) = Len(key) THEN Returned(key)
    ELSE IF Len(key) = 0 THEN Raised("ZeroDivisionError")
    ELSE Returned([i \in 1..(Len(key) * (Len(plaintext) \div Len(key))) |->
                      key[((i - 1) % Len(key)) + 1]]
                    \o SubSeq(key, 1, Len(plaintext) % Len(key)))

\* vigenere_encrypt(plaintext, key): zip(plaintext, key) over the adjusted
\* key; ord(k.upper()) raises TypeError when the upper case of k is more than
\* one character, as for U+00DF
vigenere_encrypt(plaintext, key) ==
    LET adjusted == generate_key(plaintext, key)
        upper(k) == IF k \in 97..122 THEN << k - 32 >>
                    ELSE IF k = 223 THEN << 83, 83 >>
                    ELSE IF k = 233 THEN << 201 >>
                    ELSE << k >>
    IN  IF adjusted.raised THEN adjusted
        ELSE IF \E i \in 1..Len(plaintext) :
                   LetterBase(plaintext[i]) # 0 /\ Len(upper(adjusted.value[i])) # 1
        THEN Raised("TypeError")
        ELSE Returned([i \in 1..Len(plaintext) |->
                         LET p == plaintext[i]
                             base == LetterBase(p)
                         IN  IF base # 0
                             THEN ((p - base + upper(adjusted.value[i])[1] - 65) % 26)
                                    + base
                             ELSE p])

\* vigenere_decrypt(ciphertext, key)
vigenere_decrypt(ciphertext, key) ==
    LET adjusted == generate_key(ciphertext, key)
        upper(k) == IF k \in 97..122 THEN << k - 32 >>
                    ELSE IF k = 223 THEN << 83, 83 >>
                    ELSE IF k = 233 THEN << 201 >>
                    ELSE << k >>
    IN  IF adjusted.raised THEN adjusted
        ELSE IF \E i \in 1..Len(ciphertext) :
                   LetterBase(ciphertext[i]) # 0 /\ Len(upper(adjusted.value[i])) # 1
        THEN Raised("TypeError")
        ELSE Returned([i \in 1..Len(ciphertext) |->
                         LET c == ciphertext[i]
                             base == LetterBase(c)
                         IN  IF base # 0
                             THEN ((c - base - (upper(adjusted.value[i])[1] - 65)) % 26)
                                    + base
                             ELSE c])

\* ciphertext = vigenere_encrypt(plaintext, key); adjusted holds what the
\* call of generate_key in it returned
VigenereEncrypt ==
    /\ unit.kind = "vigenere"
    /\ unit.op = "start"
    /\ LET adjusted == generate_key(unit.plaintext, unit.key)
           c == vigenere_encrypt(unit.plaintext, unit.key)
       IN  unit' = IF adjusted.raised
                   THEN [unit EXCEPT !.op = "raised", !.error = adjusted.error]
                   ELSE IF c.raised
                   THEN [unit EXCEPT !.op = "raised", !.error = c.error,
                                     !.adjusted = adjusted.value]
                   ELSE [unit EXCEPT !.op = "encrypted", !.ciphertext = c.value,
                                     !.adjusted = adjusted.value]
    /\ UNCHANGED << server, client, net, hist >>

\* decrypted = vigenere_decrypt(ciphertext, key)
VigenereDecrypt ==
    /\ unit.kind = "vigenere"
    /\ unit.op = "encrypted"
    /\ LET d == vigenere_decrypt(unit.ciphertext, unit.key)
       IN  unit' = IF d.raised
                   THEN [unit EXCEPT !.op = "raised", !.error = d.error]
                   ELSE [unit EXCEPT !.op = "decrypted", !.decrypted = d.value]
    /\ UNCHANGED << server, client, net, hist >>

\* ------------------------------------------------------ src/caeser_cipher.py

\* caesar_encrypt(plaintext, shift)
caesar_encrypt(plaintext, shift) ==
    [i \in 1..Len(plaintext) |->
        LET char == plaintext[i]
            base == LetterBase(char)
        IN  IF base # 0 THEN ((char - base + shift) % 26) + base ELSE char]

\* caesar_decrypt that shifts the same way again
caesar_decrypt_ShiftsAgain(ciphertext, shift) == caesar_encrypt(ciphertext, shift)

\* caesar_decrypt(ciphertext, shift): caesar_encrypt(ciphertext, -shift)
caesar_decrypt(ciphertext, shift) == caesar_encrypt(ciphertext, 0 - shift)

\* ciphertext = caesar_encrypt(plaintext, shift)
CaesarEncrypt ==
    /\ unit.kind = "caesar"
    /\ unit.op = "start"
    /\ unit' = [unit EXCEPT !.op = "encrypted",
                            !.ciphertext = caesar_encrypt(unit.plaintext, unit.shift)]
    /\ UNCHANGED << server, client, net, hist >>

\* decrypted = caesar_decrypt(ciphertext, shift)
CaesarDecrypt ==
    /\ unit.kind = "caesar"
    /\ unit.op = "encrypted"
    /\ unit' = [unit EXCEPT !.op = "decrypted",
                            !.decrypted = caesar_decrypt(unit.ciphertext, unit.shift)]
    /\ UNCHANGED << server, client, net, hist >>

\* ------------------------------------------------ the inputs and the calls

\* the inputs before the calls.  Column transposition: a plaintext of letters,
\* spaces and tabs and a key of two letters.  Custom cipher: a message of
\* letters in both cases, the space and U+0130; key1 the key of the script,
\* the reversed alphabet in capitals, or a key that lacks letters; key2 and
\* pad_interval from 1 on.  mod_inverse: a and m from below zero to past 26.
\* Affine cipher: a text of a capital, a small letter, the space and U+00E9,
\* a as for mod_inverse, b around zero and beyond one turn either way.
\* Vigenere cipher: a text as for the affine cipher and a key, empty or not,
\* of a small letter, a digit and U+00DF.  Caesar cipher: a text as for the
\* affine cipher and a shift from below -26 to above 26
CipherInit ==
    /\ \/ \E p \in StringsUpTo({65, 66, 67, 32, 9}, MaxTextLen) :
          \E k \in StringsUpTo({65, 66}, MaxKeyLen) :
             unit = [kind |-> "column", op |-> "start", plaintext |-> p, key |-> k,
                     ciphertext |-> None, decrypted |-> None, error |-> NoError]
       \/ \E m \in StringsUpTo({97, 66, 32, 304}, MaxMsgLen) :
          \E k1 \in { << 113, 119, 101, 114, 116, 121, 117, 105, 111, 112, 97, 115,
                         100, 102, 103, 104, 106, 107, 108, 122, 120, 99, 118, 98,
                         110, 109 >>,
                      << 90, 89, 88, 87, 86, 85, 84, 83, 82, 81, 80, 79, 78,
                         77, 76, 75, 74, 73, 72, 71, 70, 69, 68, 67, 66, 65 >>,
                      << 97, 98, 99 >> } :
          \E k2 \in 1..MaxBlock : \E pi \in 1..MaxInterval :
             unit = [kind |-> "custom", op |-> "start", message |-> m, key1 |-> k1,
                     key2 |-> k2, pad_interval |-> pi, pads |-> << >>,
                     encrypted |-> << >>, pad_positions |-> << >>,
                     decrypted |-> << >>, error |-> NoError]
       \/ \E a \in (0 - MaxBeyond)..(26 + MaxBeyond) :
          \E m \in (0 - MaxBeyond)..(26 + MaxBeyond) :
             unit = [kind |-> "inverse", op |-> "start", a |-> a, m |-> m,
                     x |-> 0, error |-> NoError]
       \/ \E p \in StringsUpTo({65, 122, 32, 233}, MaxMsgLen) :
          \E a \in (0 - MaxBeyond)..(26 + MaxBeyond) :
          \E b \in ((0 - MaxBeyond)..MaxBeyond)
                      \cup {0 - 26 - MaxBeyond, 26 + MaxBeyond} :
             unit = [kind |-> "affine", op |-> "start", plaintext |-> p, a |-> a,
                     b |-> b, ciphertext |-> << >>, decrypted |-> << >>,
                     error |-> NoError]
       \/ \E p \in StringsUpTo({65, 122, 32, 233}, MaxMsgLen) :
          \E k \in StringsUpTo({99, 49, 223}, MaxKeyLen) :
             unit = [kind |-> "vigenere", op |-> "start", plaintext |-> p, key |-> k,
                     adjusted |-> << >>, ciphertext |-> << >>, decrypted |-> << >>,
                     error |-> NoError]
       \/ \E p \in StringsUpTo({65, 122, 32, 233}, MaxMsgLen) :
          \E shift \in (0 - 26 - MaxBeyond)..(26 + MaxBeyond) :
             unit = [kind |-> "caesar", op |-> "start", plaintext |-> p,
                     shift |-> shift, ciphertext |-> << >>, decrypted |-> << >>,
                     error |-> NoError]
    /\ server = [pc |-> "off"]
    /\ client = [pc |-> "off"]
    /\ net = [conn |-> "none"]
    /\ hist = [session |-> 0]

CipherNext ==
    \/ ColumnEncrypt
    \/ ColumnDecrypt
    \/ CustomEncrypt
    \/ CustomDecrypt
    \/ ModInverse
    \/ AffineEncrypt
    \/ AffineDecrypt
    \/ VigenereEncrypt
    \/ VigenereDecrypt
    \/ CaesarEncrypt
    \/ CaesarDecrypt

SpecCipher == CipherInit /\ [][CipherNext]_vars

\* C29: columnar transposition round-trip: for every key and every
\* plaintext, decrypting the encryption gives the plaintext with its spaces
\* removed, also when that length is no multiple of the key length and when
\* the key repeats a letter.
C29_ColumnRoundTrip ==
    unit.kind = "column"
      => /\ unit.op # "raised"
         /\ unit.op = "decrypted" => unit.decrypted = RemoveSpaces(unit.plaintext)

NoRepeatedLetter(key) ==
    \A i \in 1..Len(key) : \A j \in 1..Len(key) : key[i] = key[j] => i = j

\* the round trip does hold on a full rectangle under a key of distinct
\* letters, when no white space stands at either end
C29_RectangleRoundTrip ==
    unit.kind = "column"
      => LET text == RemoveSpaces(unit.plaintext)
         IN  ( /\ unit.op = "decrypted"
               /\ NoRepeatedLetter(unit.key)
               /\ Len(text) % Len(unit.key) = 0
               /\ Strip(text) = text )
               => unit.decrypted = text

C29_RectangleWitness ==
    /\ unit.kind = "column"
    /\ unit.op = "decrypted"
    /\ unit.key = << 66, 65 >>
    /\ unit.plaintext = << 65, 66, 67, 67 >>
    /\ unit.ciphertext = << 66, 67, 65, 67 >>
    /\ unit.decrypted = << 65, 66, 67, 67 >>

\* key1 is a permutation of the 26 letters
IsPermutationKey(key1) ==
    LET k == lower(key1)
    IN  /\ Len(key1) = 26
        /\ { k[i] : i \in 1..Len(k) } = { ascii_lowercase[i] : i \in 1..26 }

\* the positions are pad_interval + k * (pad_interval + 1), each an index of
\* the ciphertext that holds the character drawn for it
PositionsAsStated ==
    \A k \in 1..Len(unit.pad_positions) :
        /\ unit.pad_positions[k] = unit.pad_interval + (k - 1) * (unit.pad_interval + 1)
        /\ unit.pad_positions[k] < Len(unit.encrypted)
        /\ unit.encrypted[unit.pad_positions[k] + 1] = unit.pads[k]

\* C30, as the code has it: for key1 a permutation of the letters, key2 >= 1
\* and pad_interval >= 1, encrypt returns a ciphertext with exactly
\* len(m.lower()) div pad_interval padding characters at the returned
\* positions pad_interval + k * (pad_interval + 1), each a valid index of the
\* ciphertext, and decrypt gives m.lower() whatever characters were drawn.
C30_CustomRoundTrip ==
    (unit.kind = "custom" /\ IsPermutationKey(unit.key1))
      => /\ unit.op # "raised"
         /\ unit.op \in {"encrypted", "decrypted"}
              => /\ Len(unit.pad_positions) = Len(lower(unit.message)) \div unit.pad_interval
                 /\ Len(unit.encrypted) = Len(lower(unit.message)) + Len(unit.pad_positions)
                 /\ PositionsAsStated
         /\ unit.op = "decrypted" => unit.decrypted = lower(unit.message)

\* a message that grows in lower case, padded with two different characters,
\* and recovered
C30_Witness ==
    /\ unit.kind = "custom"
    /\ unit.op = "decrypted"
    /\ IsPermutationKey(unit.key1)
    /\ unit.message = << 66, 304, 32 >>
    /\ unit.key2 = 3
    /\ unit.pad_interval = 2
    /\ unit.pads = << 97, 122 >>
    /\ unit.pad_positions = << 2, 5 >>
    /\ unit.decrypted = << 98, 105, 775, 32 >>

\* C30 as stated: the number of padding characters is len(m) div
\* pad_interval, at positions that are indices of the ciphertext, and decrypt
\* gives m.lower()
C30_PaddingCountOfMessage ==
    (unit.kind = "custom" /\ IsPermutationKey(unit.key1))
      => /\ unit.op \in {"encrypted", "decrypted"}
              => /\ Len(unit.pad_positions) = Len(unit.message) \div unit.pad_interval
                 /\ PositionsAsStated
         /\ unit.op = "decrypted" => unit.decrypted = lower(unit.message)

\* every character of the text is an ASCII character
IsAscii(text) == \A i \in 1..Len(text) : text[i] < 128

\* the ciphertext has a letter of the same case where the text has a letter
\* of ASCII, and the character of the text where it has another ASCII character
SameShape(text, ciphertext) ==
    /\ Len(ciphertext) = Len(text)
    /\ \A i \in 1..Len(text) :
          IF text[i] \in 65..90 THEN ciphertext[i] \in 65..90
          ELSE IF text[i] \in 97..122 THEN ciphertext[i] \in 97..122
          ELSE ciphertext[i] = text[i]

\* a and 26 have no common divisor above 1
Coprime26(a) == \A d \in 2..26 : ~(a % d = 0 /\ 26 % d = 0)

\* C31: affine cipher: mod_inverse(a, m) returns an x in 1..m-1 with
\* (a * x) mod m = 1 when one exists and raises ValueError exactly when none
\* exists; for every a coprime to 26, every integer b and every ASCII text p,
\* affine_decrypt(affine_encrypt(p, a, b), a, b) = p with case preserved and
\* non-letters unchanged; for a not coprime to 26 affine_decrypt raises
\* ValueError.
C31_AffineRoundTrip ==
    /\ unit.kind = "inverse"
         => LET exists == \E x \in 1..(unit.m - 1) : (unit.a * x) % unit.m = 1
            IN  /\ unit.op = "returned"
                     => /\ exists
                        /\ unit.x \in 1..(unit.m - 1)
                        /\ (unit.a * unit.x) % unit.m = 1
                /\ unit.op = "raised" => (~exists /\ unit.error = "ValueError")
    /\ unit.kind = "affine"
         => /\ (Coprime26(unit.a) /\ IsAscii(unit.plaintext))
                 => /\ unit.op # "raised"
                    /\ unit.op \in {"encrypted", "decrypted"}
                         => SameShape(unit.plaintext, unit.ciphertext)
                    /\ unit.op = "decrypted" => unit.decrypted = unit.plaintext
            /\ unit.op = "raised" => (~Coprime26(unit.a) /\ unit.error = "ValueError")
            /\ ~Coprime26(unit.a) => unit.op # "decrypted"

\* a negative a and a b below -26: "Az " is encrypted to "Za " and recovered
C31_Witness ==
    /\ unit.kind = "affine"
    /\ unit.op = "decrypted"
    /\ unit.a = 0 - 1
    /\ unit.b = 0 - 27
    /\ unit.plaintext = << 65, 122, 32 >>
    /\ unit.ciphertext = << 90, 97, 32 >>
    /\ unit.decrypted = << 65, 122, 32 >>

\* the adjusted key has the length of the text and repeats the key
KeyRepeated ==
    /\ Len(unit.adjusted) = Len(unit.plaintext)
    /\ \A i \in 1..Len(unit.adjusted) :
          unit.adjusted[i] = unit.key[((i - 1) % Len(unit.key)) + 1]

\* C32: Vigenere cipher: for every non-empty key and every text p,
\* generate_key(p, key) returns a string of exactly len(p) characters formed
\* by repeating the key (also when the key is longer than p), and for every
\* ASCII text p vigenere_decrypt(vigenere_encrypt(p, key), key) = p with case
\* preserved and non-letters unchanged.
C32_VigenereRoundTrip ==
    (unit.kind = "vigenere" /\ unit.key # << >>)
      => /\ unit.op # "start" => KeyRepeated
         /\ IsAscii(unit.plaintext)
              => /\ unit.op # "raised"
                 /\ unit.op \in {"encrypted", "decrypted"}
                      => SameShape(unit.plaintext, unit.ciphertext)
                 /\ unit.op = "decrypted" => unit.decrypted = unit.plaintext

\* the key has no character whose upper case is longer than the character
SingleUpperKey(key) == \A i \in 1..Len(key) : key[i] # 223

\* what does hold: generate_key for every non-empty key, and the round trip
\* for the keys whose characters each have a one-character upper case; any
\* other failure is the TypeError of ord
C32_SingleUpperRoundTrip ==
    (unit.kind = "vigenere" /\ unit.key # << >>)
      => /\ unit.op # "start" => KeyRepeated
         /\ unit.op = "raised" => (unit.error = "TypeError" /\ ~SingleUpperKey(unit.key))
         /\ (IsAscii(unit.plaintext) /\ SingleUpperKey(unit.key))
              => /\ unit.op \in {"encrypted", "decrypted"}
                      => SameShape(unit.plaintext, unit.ciphertext)
                 /\ unit.op = "decrypted" => unit.decrypted = unit.plaintext

\* a key longer than the text, a digit in it: "Az" under "c1c" is "Cj"
C32_SingleUpperWitness ==
    /\ unit.kind = "vigenere"
    /\ unit.op = "decrypted"
    /\ unit.key = << 99, 49, 99 >>
    /\ unit.plaintext = << 65, 122 >>
    /\ unit.adjusted = << 99, 49 >>
    /\ unit.ciphertext = << 67, 106 >>
    /\ unit.decrypted = << 65, 122 >>

\* C33: Caesar cipher: for every ASCII text p and every integer shift s
\* (negative, zero, or 26 and above included),
\* caesar_decrypt(caesar_encrypt(p, s), s) = p, letters stay letters of the
\* same case, non-letters are unchanged, and shifts that are equal modulo 26
\* give the same ciphertext.
C33_CaesarRoundTrip ==
    (unit.kind = "caesar" /\ IsAscii(unit.plaintext))
      => /\ unit.op # "raised"
         /\ unit.op \in {"encrypted", "decrypted"}
              => /\ SameShape(unit.plaintext, unit.ciphertext)
                 /\ \A t \in (0 - 26 - MaxBeyond)..(26 + MaxBeyond) :
                       (t - unit.shift) % 26 = 0
                         => caesar_encrypt(unit.plaintext, t) = unit.ciphertext
         /\ unit.op = "decrypted" => unit.decrypted = unit.plaintext

\* a shift below -26: "Az " is encrypted to "Zy ", as by the shifts -1 and
\* 25, and recovered
C33_Witness ==
    /\ unit.kind = "caesar"
    /\ unit.op = "decrypted"
    /\ unit.shift = 0 - 27
    /\ unit.plaintext = << 65, 122, 32 >>
    /\ unit.ciphertext = << 90, 121, 32 >>
    /\ unit.ciphertext = caesar_encrypt(unit.plaintext, 25)
    /\ unit.decrypted = << 65, 122, 32 >>

====
